---- MODULE Spec2Model ----
(***************************************************************************)
(* The generated data bindings of evenframe_playground:                    *)
(*   src/bindings/arktype.ts   the `bindings` scope of type shapes and the *)
(*                             default* constants;                         *)
(*   src/bindings/bindings.ts  the effect Schema classes with their field  *)
(*                             rules and the plain *Encoded shapes.        *)
(* The two catalogs are transcribed as data; decoding and encoding a plain *)
(* value through a schema class are operators over that data; the state    *)
(* machine is a caller that picks a schema, builds a candidate value,      *)
(* validates it, encodes the result and submits it again.                  *)
(*                                                                         *)
(* A string is a sequence of characters (UTF-16 code units), each written  *)
(* as a one-character string; the three characters outside ASCII that the  *)
(* model uses are written by their code point: "U+00DF" (sharp s),         *)
(* "U+0130" (capital I with dot above), "U+0307" (combining dot above).    *)
(***************************************************************************)
EXTENDS Integers, Sequences, FiniteSets, TLC

VARIABLES
  entity,    \* the name of the schema or default constant's entity in use
  origin,    \* where the candidate came from: "none", "default", "candidate"
  loaded,    \* the source line of the default constant loaded (0: none)
  input,     \* the candidate plain value
  edits,     \* how many fields of the candidate the caller has changed
  round,     \* how many times a validated instance was submitted again
  pc,        \* "idle", "loaded", "validated", "encoded", "unencodable"
  result,    \* the outcome of validating input (meaningful once pc is "validated")
  errors,    \* the parse option the caller validated with: "first" or "all"
  reported,  \* the errors the caller was given for a rejected input
  encoded,   \* the plain value the validated instance encodes to (once pc is "encoded")
  prior      \* the validated instance of the submission before this one (round > 0)

vars == <<entity, origin, loaded, input, edits, round, pc, result, errors, reported, encoded, prior>>

\* ---- bounds of the exploration
\* fields of one candidate the caller changes before validating
MaxEdits == 1
\* times a validated instance is encoded and submitted again
MaxRounds == 1

\* ---- plain (JSON) values
Str(s) == [t |-> "string", s |-> s]
Num(n) == [t |-> "number", n |-> n]
Bool(b) == [t |-> "boolean", b |-> b]
Null == [t |-> "null"]
Undefined == [t |-> "undefined"]
Arr(a) == [t |-> "array", a |-> a]
Obj(o) == [t |-> "object", o |-> o]

\* the elements of a sequence, and a sequence of declarations ordered by source line
Range(s) == {s[i] : i \in DOMAIN s}

SortByLine(s) ==
  LET rank(i) == Cardinality({j \in DOMAIN s : s[j].line < s[i].line}) + 1
  IN [r \in 1..Len(s) |-> s[CHOOSE i \in DOMAIN s : rank(i) = r]]

\* ---- type expressions (the arktype scope; the TypeScript types of the plain shapes)
\* 'name': a keyword ('string', 'number', ...) or a reference by name
Kw(name) == [k |-> "keyword", name |-> name]
\* [l, '|', r]
Or(l, r) == [k |-> "union", l |-> l, r |-> r]
\* [e, '[]']
ArrOf(e) == [k |-> "array", of |-> e]
\* ['===', s]
Eq(s) == [k |-> "unit", lit |-> s]
\* one field of an object shape
F(name, def) == [name |-> name, def |-> def]
\* a scope entry: a key with a union of literals, or a key with an object shape
EnumDecl(key, line, def) == [key |-> key, line |-> line, kind |-> "enum", def |-> def, fields |-> <<>>]
RecDecl(key, line, fields) == [key |-> key, line |-> line, kind |-> "record", def |-> Kw("object"), fields |-> fields]
\* export const default<E>: <E> = value
Default(e, line, value) == [entity |-> e, line |-> line, value |-> value]

\* ---- bindings.ts: effect Schema expressions
String == [k |-> "String"]
Number == [k |-> "Number"]
Boolean == [k |-> "Boolean"]
Literal(s) == [k |-> "Literal", lit |-> s]
\* a union carries no message annotation unless .annotations({ message }) gives
\* it one; { message, override: true } replaces the messages of the issues inside
NoMessage == [override |-> FALSE]
messageOverride == [override |-> TRUE]
Union(members) == [k |-> "Union", members |-> members, message |-> NoMessage]
annotations(S, message) == [k |-> S.k, members |-> S.members, message |-> message]
Array(item) == [k |-> "Array", item |-> item]
\* schema.pipe(op1).pipe(op2)...: the schema, then each refinement or transformation in order
Pipe(from, ops) == [k |-> "Pipe", from |-> from, ops |-> ops]
OptionFromNullishOr(value, onNoneEncoding) ==
  [k |-> "OptionFromNullishOr", value |-> value, onNoneEncoding |-> onNoneEncoding]
propertySignature(schema) == [k |-> "propertySignature", schema |-> schema]
Field(name, sig) == [name |-> name, sig |-> sig]
Class(id, fields) == [k |-> "Class", id |-> id, fields |-> fields]
Export(name, schema) == [name |-> name, schema |-> schema]

nonEmptyString == [op |-> "nonEmptyString"]
minLength(n) == [op |-> "minLength", n |-> n]
maxLength(n) == [op |-> "maxLength", n |-> n]
startsWith(p) == [op |-> "startsWith", p |-> p]
between(lo, hi) == [op |-> "between", lo |-> lo, hi |-> hi]
positive == [op |-> "positive"]
nonNegative == [op |-> "nonNegative"]
lessThan(n) == [op |-> "lessThan", n |-> n]
toUpperCase == [op |-> "toUpperCase"]
toLowerCase == [op |-> "toLowerCase"]

\* ---- bindings.ts: the plain shapes, in the type expressions above (Kw: a type
\* name, Or: a union, ArrOf: ReadonlyArray, Eq: a string literal type)
TypeAlias(name, line, type) == [name |-> name, line |-> line, kind |-> "type", def |-> type, fields |-> <<>>]
Interface(name, line, fields) == [name |-> name, line |-> line, kind |-> "interface", def |-> Kw("object"), fields |-> fields]

\* ---- arktype.ts: the `bindings` scope, one definition per key, holding every
\* declaration of that key in source order (line = the line of the key).
bindings_enums ==
  <<
    EnumDecl("Role", 5,
      Or(Or(Or(Eq(<<"A", "d", "m", "i", "n">>), Eq(<<"M", "o", "d", "e", "r", "a", "t", "o", "r">>)), Eq(<<"U", "s", "e", "r">>)), Eq(<<"G", "u", "e", "s", "t">>))),
    EnumDecl("PaymentMethod", 6,
      Or(Or(Or(Or(Or(Eq(<<"C", "r", "e", "d", "i", "t", "C", "a", "r", "d">>), Eq(<<"D", "e", "b", "i", "t", "C", "a", "r", "d">>)), Eq(<<"B", "a", "n", "k", "T", "r", "a", "n", "s", "f", "e", "r">>)), Eq(<<"P", "a", "y", "P", "a", "l">>)), Eq(<<"C", "r", "y", "p", "t", "o">>)), Eq(<<"C", "a", "s", "h">>))),
    EnumDecl("ProductCategory", 7,
      Or(Or(Or(Or(Or(Eq(<<"E", "l", "e", "c", "t", "r", "o", "n", "i", "c", "s">>), Eq(<<"C", "l", "o", "t", "h", "i", "n", "g">>)), Eq(<<"B", "o", "o", "k", "s">>)), Eq(<<"H", "o", "m", "e">>)), Eq(<<"S", "p", "o", "r", "t", "s">>)), Eq(<<"O", "t", "h", "e", "r">>))),
    EnumDecl("OrderStatus", 8,
      Or(Or(Or(Or(Eq(<<"P", "e", "n", "d", "i", "n", "g">>), Eq(<<"P", "r", "o", "c", "e", "s", "s", "i", "n", "g">>)), Eq(<<"S", "h", "i", "p", "p", "e", "d">>)), Eq(<<"D", "e", "l", "i", "v", "e", "r", "e", "d">>)), Eq(<<"C", "a", "n", "c", "e", "l", "l", "e", "d">>))),
    EnumDecl("PaymentStatus", 9,
      Or(Or(Or(Or(Or(Eq(<<"P", "e", "n", "d", "i", "n", "g">>), Eq(<<"P", "r", "o", "c", "e", "s", "s", "i", "n", "g">>)), Eq(<<"C", "o", "m", "p", "l", "e", "t", "e", "d">>)), Eq(<<"F", "a", "i", "l", "e", "d">>)), Eq(<<"R", "e", "f", "u", "n", "d", "e", "d">>)), Eq(<<"C", "a", "n", "c", "e", "l", "l", "e", "d">>)))
  >>


bindings_MaxValidatorStacking ==
  <<
    RecDecl("MaxValidatorStacking", 10, <<
      F("id", Kw("string")),
      F("megaValidatedString", Kw("string")),
      F("optionalMegaValidated", Or(Or(Kw("string"), Kw("undefined")), Kw("null"))),
      F("megaValidatedNumber", Kw("number")),
      F("megaValidatedU32", Kw("number")),
      F("optionalMegaU32", Or(Or(Kw("number"), Kw("undefined")), Kw("null"))),
      F("megaValidatedI64", Kw("number")),
      F("optionalMegaI64", Or(Or(Kw("number"), Kw("undefined")), Kw("null"))) >>),
    RecDecl("MaxValidatorStacking", 519, <<
      F("id", Kw("string")),
      F("megaValidatedString", Kw("string")),
      F("optionalMegaValidated", Or(Or(Kw("string"), Kw("undefined")), Kw("null"))),
      F("megaValidatedNumber", Kw("number")),
      F("megaValidatedU32", Kw("number")),
      F("optionalMegaU32", Or(Or(Kw("number"), Kw("undefined")), Kw("null"))),
      F("megaValidatedI64", Kw("number")),
      F("optionalMegaI64", Or(Or(Kw("number"), Kw("undefined")), Kw("null"))) >>)
  >>


bindings_Customer ==
  <<
    RecDecl("Customer", 20, <<
      F("id", Kw("string")),
      F("user", Or(Kw("user"), Kw("string"))),
      F("shippingAddress", Or(Or(Kw("address"), Kw("undefined")), Kw("null"))),
      F("billingAddress", Or(Or(Kw("address"), Kw("undefined")), Kw("null"))),
      F("phone", Or(Or(Kw("string"), Kw("undefined")), Kw("null"))),
      F("createdAt", Kw("string")) >>),
    RecDecl("Customer", 511, <<
      F("id", Kw("string")),
      F("user", Or(Kw("user"), Kw("string"))),
      F("shippingAddress", Or(Or(Kw("address"), Kw("undefined")), Kw("null"))),
      F("billingAddress", Or(Or(Kw("address"), Kw("undefined")), Kw("null"))),
      F("phone", Or(Or(Kw("string"), Kw("undefined")), Kw("null"))),
      F("createdAt", Kw("string")) >>)
  >>


bindings_Order ==
  <<
    RecDecl("Order", 28, <<
      F("id", Kw("string")),
      F("customer", Or(Kw("customer"), Kw("string"))),
      F("items", ArrOf(Kw("cartItem"))),
      F("subtotal", Kw("number")),
      F("tax", Kw("number")),
      F("shippingCost", Kw("number")),
      F("total", Kw("number")),
      F("status", Kw("orderStatus")),
      F("shippingAddress", Kw("address")),
      F("notes", Or(Or(Kw("string"), Kw("undefined")), Kw("null"))),
      F("createdAt", Kw("string")),
      F("shippedAt", Or(Or(Kw("string"), Kw("undefined")), Kw("null"))),
      F("deliveredAt", Or(Or(Kw("string"), Kw("undefined")), Kw("null"))) >>),
    RecDecl("Order", 559, <<
      F("id", Kw("string")),
      F("customer", Or(Kw("customer"), Kw("string"))),
      F("items", ArrOf(Kw("cartItem"))),
      F("subtotal", Kw("number")),
      F("tax", Kw("number")),
      F("shippingCost", Kw("number")),
      F("total", Kw("number")),
      F("status", Kw("orderStatus")),
      F("shippingAddress", Kw("address")),
      F("notes", Or(Or(Kw("string"), Kw("undefined")), Kw("null"))),
      F("createdAt", Kw("string")),
      F("shippedAt", Or(Or(Kw("string"), Kw("undefined")), Kw("null"))),
      F("deliveredAt", Or(Or(Kw("string"), Kw("undefined")), Kw("null"))) >>)
  >>


bindings_ArrayValidationExtremes ==
  <<
    RecDecl("ArrayValidationExtremes", 43, <<
      F("id", Kw("string")),
      F("tags", ArrOf(Kw("string"))),
      F("validatedEmails", ArrOf(Kw("string"))),
      F("optionalTags", Or(Or(ArrOf(Kw("string")), Kw("undefined")), Kw("null"))),
      F("scores", ArrOf(Kw("number"))),
      F("optionalScores", Or(Or(ArrOf(Kw("number")), Kw("undefined")), Kw("null"))),
      F("measurements", ArrOf(Kw("number"))),
      F("addresses", ArrOf(Kw("validatedAddress"))),
      F("backupAddresses", Or(Or(ArrOf(Kw("validatedAddress")), Kw("undefined")), Kw("null"))) >>),
    RecDecl("ArrayValidationExtremes", 745, <<
      F("id", Kw("string")),
      F("tags", ArrOf(Kw("string"))),
      F("validatedEmails", ArrOf(Kw("string"))),
      F("optionalTags", Or(Or(ArrOf(Kw("string")), Kw("undefined")), Kw("null"))),
      F("scores", ArrOf(Kw("number"))),
      F("optionalScores", Or(Or(ArrOf(Kw("number")), Kw("undefined")), Kw("null"))),
      F("measurements", ArrOf(Kw("number"))),
      F("addresses", ArrOf(Kw("validatedAddress"))),
      F("backupAddresses", Or(Or(ArrOf(Kw("validatedAddress")), Kw("undefined")), Kw("null"))) >>)
  >>


bindings_DateTimeExtremes ==
  <<
    RecDecl("DateTimeExtremes", 54, <<
      F("id", Kw("string")),
      F("createdAt", Kw("string")),
      F("optionalUpdatedAt", Or(Or(Kw("string"), Kw("undefined")), Kw("null"))),
      F("birthDate", Kw("string")),
      F("optionalExpiryDate", Or(Or(Kw("string"), Kw("undefined")), Kw("null"))),
      F("startTime", Kw("string")),
      F("optionalEndTime", Or(Or(Kw("string"), Kw("undefined")), Kw("null"))),
      F("appointment", Kw("string")),
      F("optionalFollowup", Or(Or(Kw("string"), Kw("undefined")), Kw("null"))),
      F("duration", Kw("string")),
      F("optionalDuration", Or(Or(Kw("string"), Kw("undefined")), Kw("null"))),
      F("timezone", Kw("string")),
      F("optionalTimezone", Or(Or(Kw("string"), Kw("undefined")), Kw("null"))),
      F("deadline", Kw("string")),
      F("optionalTargetDate", Or(Or(Kw("string"), Kw("undefined")), Kw("null"))) >>),
    RecDecl("DateTimeExtremes", 658, <<
      F("id", Kw("string")),
      F("createdAt", Kw("string")),
      F("optionalUpdatedAt", Or(Or(Kw("string"), Kw("undefined")), Kw("null"))),
      F("birthDate", Kw("string")),
      F("optionalExpiryDate", Or(Or(Kw("string"), Kw("undefined")), Kw("null"))),
      F("startTime", Kw("string")),
      F("optionalEndTime", Or(Or(Kw("string"), Kw("undefined")), Kw("null"))),
      F("appointment", Kw("string")),
      F("optionalFollowup", Or(Or(Kw("string"), Kw("undefined")), Kw("null"))),
      F("duration", Kw("string")),
      F("optionalDuration", Or(Or(Kw("string"), Kw("undefined")), Kw("null"))),
      F("timezone", Kw("string")),
      F("optionalTimezone", Or(Or(Kw("string"), Kw("undefined")), Kw("null"))),
      F("deadline", Kw("string")),
      F("optionalTargetDate", Or(Or(Kw("string"), Kw("undefined")), Kw("null"))) >>)
  >>

\* NetworkTypes with optionalIp required in its second declaration
bindings_NetworkTypes_secondDiffers ==
  <<
    RecDecl("NetworkTypes", 71, <<
      F("id", Kw("string")),
      F("ipAddress", Kw("string")),
      F("optionalIp", Or(Or(Kw("string"), Kw("undefined")), Kw("null"))),
      F("macAddress", Kw("string")),
      F("optionalMac", Or(Or(Kw("string"), Kw("undefined")), Kw("null"))),
      F("internalApiUrl", Kw("string")),
      F("optionalStorageUrl", Or(Or(Kw("string"), Kw("undefined")), Kw("null"))),
      F("userAgent", Kw("string")),
      F("optionalUserAgent", Or(Or(Kw("string"), Kw("undefined")), Kw("null"))) >>),
    RecDecl("NetworkTypes", 82, <<
      F("id", Kw("string")),
      F("ipAddress", Kw("string")),
      F("optionalIp", Kw("string")),
      F("macAddress", Kw("string")),
      F("optionalMac", Or(Or(Kw("string"), Kw("undefined")), Kw("null"))),
      F("internalApiUrl", Kw("string")),
      F("optionalStorageUrl", Or(Or(Kw("string"), Kw("undefined")), Kw("null"))),
      F("userAgent", Kw("string")),
      F("optionalUserAgent", Or(Or(Kw("string"), Kw("undefined")), Kw("null"))) >>)
  >>


bindings_NetworkTypes ==
  <<
    RecDecl("NetworkTypes", 71, <<
      F("id", Kw("string")),
      F("ipAddress", Kw("string")),
      F("optionalIp", Or(Or(Kw("string"), Kw("undefined")), Kw("null"))),
      F("macAddress", Kw("string")),
      F("optionalMac", Or(Or(Kw("string"), Kw("undefined")), Kw("null"))),
      F("internalApiUrl", Kw("string")),
      F("optionalStorageUrl", Or(Or(Kw("string"), Kw("undefined")), Kw("null"))),
      F("userAgent", Kw("string")),
      F("optionalUserAgent", Or(Or(Kw("string"), Kw("undefined")), Kw("null"))) >>),
    RecDecl("NetworkTypes", 82, <<
      F("id", Kw("string")),
      F("ipAddress", Kw("string")),
      F("optionalIp", Or(Or(Kw("string"), Kw("undefined")), Kw("null"))),
      F("macAddress", Kw("string")),
      F("optionalMac", Or(Or(Kw("string"), Kw("undefined")), Kw("null"))),
      F("internalApiUrl", Kw("string")),
      F("optionalStorageUrl", Or(Or(Kw("string"), Kw("undefined")), Kw("null"))),
      F("userAgent", Kw("string")),
      F("optionalUserAgent", Or(Or(Kw("string"), Kw("undefined")), Kw("null"))) >>)
  >>


bindings_Session ==
  <<
    RecDecl("Session", 93, <<
      F("id", Kw("string")),
      F("user", Or(Kw("user"), Kw("string"))),
      F("token", Kw("string")),
      F("expiresAt", Kw("string")),
      F("createdAt", Kw("string")) >>),
    RecDecl("Session", 387, <<
      F("id", Kw("string")),
      F("user", Or(Kw("user"), Kw("string"))),
      F("token", Kw("string")),
      F("expiresAt", Kw("string")),
      F("createdAt", Kw("string")) >>)
  >>


bindings_ComplexStringValidation ==
  <<
    RecDecl("ComplexStringValidation", 100, <<
      F("id", Kw("string")),
      F("optionalUuid", Or(Or(Kw("string"), Kw("undefined")), Kw("null"))),
      F("optionalIp", Or(Or(Kw("string"), Kw("undefined")), Kw("null"))),
      F("optionalIpv4", Or(Or(Kw("string"), Kw("undefined")), Kw("null"))),
      F("optionalDigits", Or(Or(Kw("string"), Kw("undefined")), Kw("null"))),
      F("optionalHex", Or(Or(Kw("string"), Kw("undefined")), Kw("null"))),
      F("optionalAlpha", Or(Or(Kw("string"), Kw("undefined")), Kw("null"))),
      F("optionalAlphanumeric", Or(Or(Kw("string"), Kw("undefined")), Kw("null"))),
      F("optionalDomain", Or(Or(Kw("string"), Kw("undefined")), Kw("null"))),
      F("optionalWithAt", Or(Or(Kw("string"), Kw("undefined")), Kw("null"))) >>),
    RecDecl("ComplexStringValidation", 710, <<
      F("id", Kw("string")),
      F("optionalUuid", Or(Or(Kw("string"), Kw("undefined")), Kw("null"))),
      F("optionalIp", Or(Or(Kw("string"), Kw("undefined")), Kw("null"))),
      F("optionalIpv4", Or(Or(Kw("string"), Kw("undefined")), Kw("null"))),
      F("optionalDigits", Or(Or(Kw("string"), Kw("undefined")), Kw("null"))),
      F("optionalHex", Or(Or(Kw("string"), Kw("undefined")), Kw("null"))),
      F("optionalAlpha", Or(Or(Kw("string"), Kw("undefined")), Kw("null"))),
      F("optionalAlphanumeric", Or(Or(Kw("string"), Kw("undefined")), Kw("null"))),
      F("optionalDomain", Or(Or(Kw("string"), Kw("undefined")), Kw("null"))),
      F("optionalWithAt", Or(Or(Kw("string"), Kw("undefined")), Kw("null"))) >>)
  >>


bindings_FloatValidation ==
  <<
    RecDecl("FloatValidation", 112, <<
      F("id", Kw("string")),
      F("positiveFloat", Kw("number")),
      F("nonNegativeFloat", Kw("number")),
      F("normalized", Kw("number")),
      F("optionalPositiveFloat", Or(Or(Kw("number"), Kw("undefined")), Kw("null"))) >>),
    RecDecl("FloatValidation", 380, <<
      F("id", Kw("string")),
      F("positiveFloat", Kw("number")),
      F("nonNegativeFloat", Kw("number")),
      F("normalized", Kw("number")),
      F("optionalPositiveFloat", Or(Or(Kw("number"), Kw("undefined")), Kw("null"))) >>)
  >>


bindings_NonEmptyOptionString ==
  <<
    RecDecl("NonEmptyOptionString", 119, <<
      F("id", Kw("string")),
      F("optionalNonEmpty", Or(Or(Kw("string"), Kw("undefined")), Kw("null"))),
      F("optionalMinThree", Or(Or(Kw("string"), Kw("undefined")), Kw("null"))) >>),
    RecDecl("NonEmptyOptionString", 605, <<
      F("id", Kw("string")),
      F("optionalNonEmpty", Or(Or(Kw("string"), Kw("undefined")), Kw("null"))),
      F("optionalMinThree", Or(Or(Kw("string"), Kw("undefined")), Kw("null"))) >>)
  >>


bindings_ComplexIdentifiers ==
  <<
    RecDecl("ComplexIdentifiers", 124, <<
      F("id", Kw("string")),
      F("uuidField", Kw("string")),
      F("optionalUuid", Or(Or(Kw("string"), Kw("undefined")), Kw("null"))),
      F("hexId32", Kw("string")),
      F("optionalHexId", Or(Or(Kw("string"), Kw("undefined")), Kw("null"))),
      F("base64Token", Kw("string")),
      F("optionalBase64Token", Or(Or(Kw("string"), Kw("undefined")), Kw("null"))),
      F("version", Kw("string")),
      F("optionalVersion", Or(Or(Kw("string"), Kw("undefined")), Kw("null"))),
      F("sha256Hash", Kw("string")),
      F("optionalHash", Or(Or(Kw("string"), Kw("undefined")), Kw("null"))) >>),
    RecDecl("ComplexIdentifiers", 161, <<
      F("id", Kw("string")),
      F("uuidField", Kw("string")),
      F("optionalUuid", Or(Or(Kw("string"), Kw("undefined")), Kw("null"))),
      F("hexId32", Kw("string")),
      F("optionalHexId", Or(Or(Kw("string"), Kw("undefined")), Kw("null"))),
      F("base64Token", Kw("string")),
      F("optionalBase64Token", Or(Or(Kw("string"), Kw("undefined")), Kw("null"))),
      F("version", Kw("string")),
      F("optionalVersion", Or(Or(Kw("string"), Kw("undefined")), Kw("null"))),
      F("sha256Hash", Kw("string")),
      F("optionalHash", Or(Or(Kw("string"), Kw("undefined")), Kw("null"))) >>)
  >>


bindings_Post ==
  <<
    RecDecl("Post", 137, <<
      F("id", Kw("string")),
      F("title", Kw("string")),
      F("slug", Kw("string")),
      F("content", Kw("string")),
      F("excerpt", Or(Or(Kw("string"), Kw("undefined")), Kw("null"))),
      F("author", Or(Kw("author"), Kw("string"))),
      F("tags", ArrOf(Or(Kw("tag"), Kw("string")))),
      F("featuredImage", Or(Or(Kw("string"), Kw("undefined")), Kw("null"))),
      F("published", Kw("boolean")),
      F("publishedAt", Or(Or(Kw("string"), Kw("undefined")), Kw("null"))),
      F("viewCount", Kw("number")),
      F("createdAt", Kw("string")),
      F("updatedAt", Kw("string")) >>),
    RecDecl("Post", 496, <<
      F("id", Kw("string")),
      F("title", Kw("string")),
      F("slug", Kw("string")),
      F("content", Kw("string")),
      F("excerpt", Or(Or(Kw("string"), Kw("undefined")), Kw("null"))),
      F("author", Or(Kw("author"), Kw("string"))),
      F("tags", ArrOf(Or(Kw("tag"), Kw("string")))),
      F("featuredImage", Or(Or(Kw("string"), Kw("undefined")), Kw("null"))),
      F("published", Kw("boolean")),
      F("publishedAt", Or(Or(Kw("string"), Kw("undefined")), Kw("null"))),
      F("viewCount", Kw("number")),
      F("createdAt", Kw("string")),
      F("updatedAt", Kw("string")) >>)
  >>


bindings_KitchenSinkString ==
  <<
    RecDecl("KitchenSinkString", 152, <<
      F("id", Kw("string")),
      F("strictUsername", Kw("string")),
      F("optionalStrictUsername", Or(Or(Kw("string"), Kw("undefined")), Kw("null"))),
      F("validatedEmail", Kw("string")),
      F("optionalValidatedEmail", Or(Or(Kw("string"), Kw("undefined")), Kw("null"))),
      F("apiEndpoint", Kw("string")),
      F("optionalCdnUrl", Or(Or(Kw("string"), Kw("undefined")), Kw("null"))) >>),
    RecDecl("KitchenSinkString", 736, <<
      F("id", Kw("string")),
      F("strictUsername", Kw("string")),
      F("optionalStrictUsername", Or(Or(Kw("string"), Kw("undefined")), Kw("null"))),
      F("validatedEmail", Kw("string")),
      F("optionalValidatedEmail", Or(Or(Kw("string"), Kw("undefined")), Kw("null"))),
      F("apiEndpoint", Kw("string")),
      F("optionalCdnUrl", Or(Or(Kw("string"), Kw("undefined")), Kw("null"))) >>)
  >>


bindings_MultipleNumberValidators ==
  <<
    RecDecl("MultipleNumberValidators", 174, <<
      F("id", Kw("string")),
      F("boundedPositive", Kw("number")),
      F("optionalByte", Or(Or(Kw("number"), Kw("undefined")), Kw("null"))),
      F("percentage", Kw("number")) >>),
    RecDecl("MultipleNumberValidators", 782, <<
      F("id", Kw("string")),
      F("boundedPositive", Kw("number")),
      F("optionalByte", Or(Or(Kw("number"), Kw("undefined")), Kw("null"))),
      F("percentage", Kw("number")) >>)
  >>


bindings_BusinessExtremes ==
  <<
    RecDecl("BusinessExtremes", 180, <<
      F("id", Kw("string")),
      F("companyName", Kw("string")),
      F("jobTitle", Kw("string")),
      F("optionalParentCompany", Or(Or(Kw("string"), Kw("undefined")), Kw("null"))),
      F("productName", Kw("string")),
      F("sku", Kw("string")),
      F("optionalVariantName", Or(Or(Kw("string"), Kw("undefined")), Kw("null"))),
      F("optionalVariantSku", Or(Or(Kw("string"), Kw("undefined")), Kw("null"))),
      F("price", Kw("number")),
      F("optionalDiscount", Or(Or(Kw("number"), Kw("undefined")), Kw("null"))),
      F("quantity", Kw("number")),
      F("optionalMinQuantity", Or(Or(Kw("number"), Kw("undefined")), Kw("null"))),
      F("testCardNumber", Kw("string")),
      F("optionalBackupCard", Or(Or(Kw("string"), Kw("undefined")), Kw("null"))) >>),
    RecDecl("BusinessExtremes", 480, <<
      F("id", Kw("string")),
      F("companyName", Kw("string")),
      F("jobTitle", Kw("string")),
      F("optionalParentCompany", Or(Or(Kw("string"), Kw("undefined")), Kw("null"))),
      F("productName", Kw("string")),
      F("sku", Kw("string")),
      F("optionalVariantName", Or(Or(Kw("string"), Kw("undefined")), Kw("null"))),
      F("optionalVariantSku", Or(Or(Kw("string"), Kw("undefined")), Kw("null"))),
      F("price", Kw("number")),
      F("optionalDiscount", Or(Or(Kw("number"), Kw("undefined")), Kw("null"))),
      F("quantity", Kw("number")),
      F("optionalMinQuantity", Or(Or(Kw("number"), Kw("undefined")), Kw("null"))),
      F("testCardNumber", Kw("string")),
      F("optionalBackupCard", Or(Or(Kw("string"), Kw("undefined")), Kw("null"))) >>)
  >>


bindings_DeepNestedValidation ==
  <<
    RecDecl("DeepNestedValidation", 196, <<
      F("id", Kw("string")),
      F("name", Kw("string")),
      F("primaryAddress", Kw("validatedAddress")),
      F("billingAddress", Or(Or(Kw("validatedAddress"), Kw("undefined")), Kw("null"))),
      F("shippingAddresses", ArrOf(Kw("validatedAddress"))),
      F("primaryContact", Kw("validatedContact")),
      F("secondaryContact", Or(Or(Kw("validatedContact"), Kw("undefined")), Kw("null"))),
      F("additionalContacts", ArrOf(Kw("validatedContact"))),
      F("totalOrders", Kw("number")),
      F("totalSpent", Kw("number")),
      F("creditLimit", Or(Or(Kw("number"), Kw("undefined")), Kw("null"))) >>),
    RecDecl("DeepNestedValidation", 330, <<
      F("id", Kw("string")),
      F("name", Kw("string")),
      F("primaryAddress", Kw("validatedAddress")),
      F("billingAddress", Or(Or(Kw("validatedAddress"), Kw("undefined")), Kw("null"))),
      F("shippingAddresses", ArrOf(Kw("validatedAddress"))),
      F("primaryContact", Kw("validatedContact")),
      F("secondaryContact", Or(Or(Kw("validatedContact"), Kw("undefined")), Kw("null"))),
      F("additionalContacts", ArrOf(Kw("validatedContact"))),
      F("totalOrders", Kw("number")),
      F("totalSpent", Kw("number")),
      F("creditLimit", Or(Or(Kw("number"), Kw("undefined")), Kw("null"))) >>)
  >>


bindings_EdgeCasePost ==
  <<
    RecDecl("EdgeCasePost", 209, <<
      F("id", Kw("string")),
      F("author", Or(Kw("edgeCaseUser"), Kw("string"))),
      F("title", Kw("string")),
      F("content", Kw("string")),
      F("slug", Kw("string")),
      F("createdAt", Kw("string")),
      F("updatedAt", Or(Or(Kw("string"), Kw("undefined")), Kw("null"))),
      F("viewCount", Kw("number")),
      F("likeCount", Kw("number")),
      F("isPublished", Kw("boolean")),
      F("featuredImage", Or(Or(Kw("string"), Kw("undefined")), Kw("null"))),
      F("metaDescription", Or(Or(Kw("string"), Kw("undefined")), Kw("null"))) >>),
    RecDecl("EdgeCasePost", 230, <<
      F("id", Kw("string")),
      F("author", Or(Kw("edgeCaseUser"), Kw("string"))),
      F("title", Kw("string")),
      F("content", Kw("string")),
      F("slug", Kw("string")),
      F("createdAt", Kw("string")),
      F("updatedAt", Or(Or(Kw("string"), Kw("undefined")), Kw("null"))),
      F("viewCount", Kw("number")),
      F("likeCount", Kw("number")),
      F("isPublished", Kw("boolean")),
      F("featuredImage", Or(Or(Kw("string"), Kw("undefined")), Kw("null"))),
      F("metaDescription", Or(Or(Kw("string"), Kw("undefined")), Kw("null"))) >>)
  >>


bindings_OptionalIntegerValidation ==
  <<
    RecDecl("OptionalIntegerValidation", 223, <<
      F("id", Kw("string")),
      F("optionalPositiveU32", Or(Or(Kw("number"), Kw("undefined")), Kw("null"))),
      F("optionalNonNegativeI32", Or(Or(Kw("number"), Kw("undefined")), Kw("null"))),
      F("optionalPositiveU64", Or(Or(Kw("number"), Kw("undefined")), Kw("null"))),
      F("optionalNegativeI64", Or(Or(Kw("number"), Kw("undefined")), Kw("null"))) >>),
    RecDecl("OptionalIntegerValidation", 343, <<
      F("id", Kw("string")),
      F("optionalPositiveU32", Or(Or(Kw("number"), Kw("undefined")), Kw("null"))),
      F("optionalNonNegativeI32", Or(Or(Kw("number"), Kw("undefined")), Kw("null"))),
      F("optionalPositiveU64", Or(Or(Kw("number"), Kw("undefined")), Kw("null"))),
      F("optionalNegativeI64", Or(Or(Kw("number"), Kw("undefined")), Kw("null"))) >>)
  >>


bindings_Product ==
  <<
    RecDecl("Product", 244, <<
      F("id", Kw("string")),
      F("name", Kw("string")),
      F("description", Kw("string")),
      F("price", Kw("number")),
      F("stockQuantity", Kw("number")),
      F("category", Kw("productCategory")),
      F("imageUrl", Or(Or(Kw("string"), Kw("undefined")), Kw("null"))),
      F("isAvailable", Kw("boolean")),
      F("createdAt", Kw("string")) >>),
    RecDecl("Product", 539, <<
      F("id", Kw("string")),
      F("name", Kw("string")),
      F("description", Kw("string")),
      F("price", Kw("number")),
      F("stockQuantity", Kw("number")),
      F("category", Kw("productCategory")),
      F("imageUrl", Or(Or(Kw("string"), Kw("undefined")), Kw("null"))),
      F("isAvailable", Kw("boolean")),
      F("createdAt", Kw("string")) >>)
  >>


bindings_ExtremeIntegerValidation ==
  <<
    RecDecl("ExtremeIntegerValidation", 255, <<
      F("id", Kw("string")),
      F("constrainedU8", Kw("number")),
      F("optionalConstrainedU8", Or(Or(Kw("number"), Kw("undefined")), Kw("null"))),
      F("boundedU16", Kw("number")),
      F("optionalBoundedU16", Or(Or(Kw("number"), Kw("undefined")), Kw("null"))),
      F("percentageU32", Kw("number")),
      F("optionalPercentageU32", Or(Or(Kw("number"), Kw("undefined")), Kw("null"))),
      F("largeU64", Kw("number")),
      F("optionalLargeU64", Or(Or(Kw("number"), Kw("undefined")), Kw("null"))),
      F("negativeI8", Kw("number")),
      F("optionalNegativeI8", Or(Or(Kw("number"), Kw("undefined")), Kw("null"))),
      F("nonPositiveI16", Kw("number")),
      F("optionalNonPositiveI16", Or(Or(Kw("number"), Kw("undefined")), Kw("null"))),
      F("boundedI32", Kw("number")),
      F("optionalBoundedI32", Or(Or(Kw("number"), Kw("undefined")), Kw("null"))),
      F("constrainedI64", Kw("number")),
      F("optionalNonNegativeI64", Or(Or(Kw("number"), Kw("undefined")), Kw("null"))),
      F("boundedUsize", Kw("number")),
      F("optionalBoundedUsize", Or(Or(Kw("number"), Kw("undefined")), Kw("null"))),
      F("boundedIsize", Kw("number")),
      F("optionalPositiveIsize", Or(Or(Kw("number"), Kw("undefined")), Kw("null"))) >>),
    RecDecl("ExtremeIntegerValidation", 394, <<
      F("id", Kw("string")),
      F("constrainedU8", Kw("number")),
      F("optionalConstrainedU8", Or(Or(Kw("number"), Kw("undefined")), Kw("null"))),
      F("boundedU16", Kw("number")),
      F("optionalBoundedU16", Or(Or(Kw("number"), Kw("undefined")), Kw("null"))),
      F("percentageU32", Kw("number")),
      F("optionalPercentageU32", Or(Or(Kw("number"), Kw("undefined")), Kw("null"))),
      F("largeU64", Kw("number")),
      F("optionalLargeU64", Or(Or(Kw("number"), Kw("undefined")), Kw("null"))),
      F("negativeI8", Kw("number")),
      F("optionalNegativeI8", Or(Or(Kw("number"), Kw("undefined")), Kw("null"))),
      F("nonPositiveI16", Kw("number")),
      F("optionalNonPositiveI16", Or(Or(Kw("number"), Kw("undefined")), Kw("null"))),
      F("boundedI32", Kw("number")),
      F("optionalBoundedI32", Or(Or(Kw("number"), Kw("undefined")), Kw("null"))),
      F("constrainedI64", Kw("number")),
      F("optionalNonNegativeI64", Or(Or(Kw("number"), Kw("undefined")), Kw("null"))),
      F("boundedUsize", Kw("number")),
      F("optionalBoundedUsize", Or(Or(Kw("number"), Kw("undefined")), Kw("null"))),
      F("boundedIsize", Kw("number")),
      F("optionalPositiveIsize", Or(Or(Kw("number"), Kw("undefined")), Kw("null"))) >>)
  >>


bindings_User ==
  <<
    RecDecl("User", 278, <<
      F("id", Kw("string")),
      F("email", Kw("string")),
      F("username", Kw("string")),
      F("passwordHash", Kw("string")),
      F("roles", ArrOf(Kw("role"))),
      F("isActive", Kw("boolean")),
      F("createdAt", Kw("string")),
      F("updatedAt", Kw("string")) >>),
    RecDecl("User", 529, <<
      F("id", Kw("string")),
      F("email", Kw("string")),
      F("username", Kw("string")),
      F("passwordHash", Kw("string")),
      F("roles", ArrOf(Kw("role"))),
      F("isActive", Kw("boolean")),
      F("createdAt", Kw("string")),
      F("updatedAt", Kw("string")) >>)
  >>


bindings_Tag ==
  <<
    RecDecl("Tag", 288, <<
      F("id", Kw("string")),
      F("name", Kw("string")),
      F("slug", Kw("string")),
      F("description", Or(Or(Kw("string"), Kw("undefined")), Kw("null"))),
      F("postCount", Kw("number")) >>),
    RecDecl("Tag", 574, <<
      F("id", Kw("string")),
      F("name", Kw("string")),
      F("slug", Kw("string")),
      F("description", Or(Or(Kw("string"), Kw("undefined")), Kw("null"))),
      F("postCount", Kw("number")) >>)
  >>


bindings_EdgeCaseUser ==
  <<
    RecDecl("EdgeCaseUser", 295, <<
      F("id", Kw("string")),
      F("email", Kw("string")),
      F("username", Kw("string")),
      F("createdAt", Kw("string")),
      F("loginCount", Kw("number")),
      F("rating", Or(Or(Kw("number"), Kw("undefined")), Kw("null"))) >>),
    RecDecl("EdgeCaseUser", 728, <<
      F("id", Kw("string")),
      F("email", Kw("string")),
      F("username", Kw("string")),
      F("createdAt", Kw("string")),
      F("loginCount", Kw("number")),
      F("rating", Or(Or(Kw("number"), Kw("undefined")), Kw("null"))) >>)
  >>


bindings_ValidatedAddress ==
  <<
    RecDecl("ValidatedAddress", 303, <<
      F("street", Kw("string")),
      F("city", Kw("string")),
      F("stateCode", Kw("string")),
      F("postalCode", Kw("string")),
      F("countryCode", Kw("string")),
      F("latitude", Or(Or(Kw("number"), Kw("undefined")), Kw("null"))),
      F("longitude", Or(Or(Kw("number"), Kw("undefined")), Kw("null"))) >>)
  >>


bindings_PersonalInfoExtremes ==
  <<
    RecDecl("PersonalInfoExtremes", 312, <<
      F("id", Kw("string")),
      F("firstName", Kw("string")),
      F("lastName", Kw("string")),
      F("fullName", Kw("string")),
      F("optionalNickname", Or(Or(Kw("string"), Kw("undefined")), Kw("null"))),
      F("phone", Kw("string")),
      F("optionalMobile", Or(Or(Kw("string"), Kw("undefined")), Kw("null"))),
      F("email", Kw("string")),
      F("optionalWorkEmail", Or(Or(Kw("string"), Kw("undefined")), Kw("null"))),
      F("street", Kw("string")),
      F("city", Kw("string")),
      F("state", Kw("string")),
      F("postalCode", Kw("string")),
      F("country", Kw("string")),
      F("optionalStreet", Or(Or(Kw("string"), Kw("undefined")), Kw("null"))),
      F("optionalCity", Or(Or(Kw("string"), Kw("undefined")), Kw("null"))) >>),
    RecDecl("PersonalInfoExtremes", 675, <<
      F("id", Kw("string")),
      F("firstName", Kw("string")),
      F("lastName", Kw("string")),
      F("fullName", Kw("string")),
      F("optionalNickname", Or(Or(Kw("string"), Kw("undefined")), Kw("null"))),
      F("phone", Kw("string")),
      F("optionalMobile", Or(Or(Kw("string"), Kw("undefined")), Kw("null"))),
      F("email", Kw("string")),
      F("optionalWorkEmail", Or(Or(Kw("string"), Kw("undefined")), Kw("null"))),
      F("street", Kw("string")),
      F("city", Kw("string")),
      F("state", Kw("string")),
      F("postalCode", Kw("string")),
      F("country", Kw("string")),
      F("optionalStreet", Or(Or(Kw("string"), Kw("undefined")), Kw("null"))),
      F("optionalCity", Or(Or(Kw("string"), Kw("undefined")), Kw("null"))) >>)
  >>


bindings_Comment ==
  <<
    RecDecl("Comment", 350, <<
      F("id", Kw("string")),
      F("post", Or(Kw("post"), Kw("string"))),
      F("author", Or(Kw("author"), Kw("string"))),
      F("content", Kw("string")),
      F("parentCommentId", Or(Or(Kw("string"), Kw("undefined")), Kw("null"))),
      F("isApproved", Kw("boolean")),
      F("createdAt", Kw("string")),
      F("editedAt", Or(Or(Kw("string"), Kw("undefined")), Kw("null"))) >>),
    RecDecl("Comment", 581, <<
      F("id", Kw("string")),
      F("post", Or(Kw("post"), Kw("string"))),
      F("author", Or(Kw("author"), Kw("string"))),
      F("content", Kw("string")),
      F("parentCommentId", Or(Or(Kw("string"), Kw("undefined")), Kw("null"))),
      F("isApproved", Kw("boolean")),
      F("createdAt", Kw("string")),
      F("editedAt", Or(Or(Kw("string"), Kw("undefined")), Kw("null"))) >>)
  >>


bindings_ComplexPayment ==
  <<
    RecDecl("ComplexPayment", 360, <<
      F("id", Kw("string")),
      F("user", Or(Kw("edgeCaseUser"), Kw("string"))),
      F("status", Kw("paymentStatus")),
      F("method", Kw("paymentMethod")),
      F("amount", Kw("number")),
      F("currency", Kw("string")),
      F("fee", Kw("number")),
      F("tax", Kw("number")),
      F("total", Kw("number")),
      F("transactionId", Kw("string")),
      F("referenceCode", Or(Or(Kw("string"), Kw("undefined")), Kw("null"))),
      F("createdAt", Kw("string")),
      F("processedAt", Or(Or(Kw("string"), Kw("undefined")), Kw("null"))),
      F("completedAt", Or(Or(Kw("string"), Kw("undefined")), Kw("null"))),
      F("billingAddress", Kw("validatedAddress")),
      F("notes", Or(Or(Kw("string"), Kw("undefined")), Kw("null"))),
      F("retryCount", Kw("number")),
      F("failureReason", Or(Or(Kw("string"), Kw("undefined")), Kw("null"))) >>),
    RecDecl("ComplexPayment", 625, <<
      F("id", Kw("string")),
      F("user", Or(Kw("edgeCaseUser"), Kw("string"))),
      F("status", Kw("paymentStatus")),
      F("method", Kw("paymentMethod")),
      F("amount", Kw("number")),
      F("currency", Kw("string")),
      F("fee", Kw("number")),
      F("tax", Kw("number")),
      F("total", Kw("number")),
      F("transactionId", Kw("string")),
      F("referenceCode", Or(Or(Kw("string"), Kw("undefined")), Kw("null"))),
      F("createdAt", Kw("string")),
      F("processedAt", Or(Or(Kw("string"), Kw("undefined")), Kw("null"))),
      F("completedAt", Or(Or(Kw("string"), Kw("undefined")), Kw("null"))),
      F("billingAddress", Kw("validatedAddress")),
      F("notes", Or(Or(Kw("string"), Kw("undefined")), Kw("null"))),
      F("retryCount", Kw("number")),
      F("failureReason", Or(Or(Kw("string"), Kw("undefined")), Kw("null"))) >>)
  >>


bindings_CaseValidation ==
  <<
    RecDecl("CaseValidation", 417, <<
      F("id", Kw("string")),
      F("optionalLowercase", Or(Or(Kw("string"), Kw("undefined")), Kw("null"))),
      F("optionalUppercase", Or(Or(Kw("string"), Kw("undefined")), Kw("null"))),
      F("optionalCapitalized", Or(Or(Kw("string"), Kw("undefined")), Kw("null"))),
      F("optionalUncapitalized", Or(Or(Kw("string"), Kw("undefined")), Kw("null"))),
      F("optionalTrimmed", Or(Or(Kw("string"), Kw("undefined")), Kw("null"))) >>),
    RecDecl("CaseValidation", 591, <<
      F("id", Kw("string")),
      F("optionalLowercase", Or(Or(Kw("string"), Kw("undefined")), Kw("null"))),
      F("optionalUppercase", Or(Or(Kw("string"), Kw("undefined")), Kw("null"))),
      F("optionalCapitalized", Or(Or(Kw("string"), Kw("undefined")), Kw("null"))),
      F("optionalUncapitalized", Or(Or(Kw("string"), Kw("undefined")), Kw("null"))),
      F("optionalTrimmed", Or(Or(Kw("string"), Kw("undefined")), Kw("null"))) >>)
  >>


bindings_IntegerBounds ==
  <<
    RecDecl("IntegerBounds", 425, <<
      F("id", Kw("string")),
      F("percentage", Kw("number")),
      F("aboveZero", Kw("number")),
      F("underThousand", Kw("number")),
      F("optionalByteValue", Or(Or(Kw("number"), Kw("undefined")), Kw("null"))),
      F("optionalBounded", Or(Or(Kw("number"), Kw("undefined")), Kw("null"))) >>),
    RecDecl("IntegerBounds", 756, <<
      F("id", Kw("string")),
      F("percentage", Kw("number")),
      F("aboveZero", Kw("number")),
      F("underThousand", Kw("number")),
      F("optionalByteValue", Or(Or(Kw("number"), Kw("undefined")), Kw("null"))),
      F("optionalBounded", Or(Or(Kw("number"), Kw("undefined")), Kw("null"))) >>)
  >>


bindings_MultiValidatorOptionalString ==
  <<
    RecDecl("MultiValidatorOptionalString", 433, <<
      F("id", Kw("string")),
      F("username", Or(Or(Kw("string"), Kw("undefined")), Kw("null"))),
      F("email", Or(Or(Kw("string"), Kw("undefined")), Kw("null"))),
      F("website", Or(Or(Kw("string"), Kw("undefined")), Kw("null"))) >>),
    RecDecl("MultiValidatorOptionalString", 610, <<
      F("id", Kw("string")),
      F("username", Or(Or(Kw("string"), Kw("undefined")), Kw("null"))),
      F("email", Or(Or(Kw("string"), Kw("undefined")), Kw("null"))),
      F("website", Or(Or(Kw("string"), Kw("undefined")), Kw("null"))) >>)
  >>


bindings_InnerValidated ==
  <<
    RecDecl("InnerValidated", 439, <<
      F("name", Kw("string")),
      F("count", Kw("number")),
      F("optionalEmail", Or(Or(Kw("string"), Kw("undefined")), Kw("null"))) >>)
  >>


bindings_Address ==
  <<
    RecDecl("Address", 444, <<
      F("street", Kw("string")),
      F("city", Kw("string")),
      F("state", Kw("string")),
      F("postalCode", Kw("string")),
      F("country", Kw("string")) >>)
  >>


bindings_EdgeCaseComment ==
  <<
    RecDecl("EdgeCaseComment", 451, <<
      F("id", Kw("string")),
      F("post", Or(Kw("edgeCasePost"), Kw("string"))),
      F("author", Or(Kw("edgeCaseUser"), Kw("string"))),
      F("content", Kw("string")),
      F("createdAt", Kw("string")),
      F("editedAt", Or(Or(Kw("string"), Kw("undefined")), Kw("null"))),
      F("likeCount", Kw("number")),
      F("parentCommentId", Or(Or(Kw("string"), Kw("undefined")), Kw("null"))),
      F("isApproved", Kw("boolean")),
      F("authorIp", Or(Or(Kw("string"), Kw("undefined")), Kw("null"))) >>),
    RecDecl("EdgeCaseComment", 770, <<
      F("id", Kw("string")),
      F("post", Or(Kw("edgeCasePost"), Kw("string"))),
      F("author", Or(Kw("edgeCaseUser"), Kw("string"))),
      F("content", Kw("string")),
      F("createdAt", Kw("string")),
      F("editedAt", Or(Or(Kw("string"), Kw("undefined")), Kw("null"))),
      F("likeCount", Kw("number")),
      F("parentCommentId", Or(Or(Kw("string"), Kw("undefined")), Kw("null"))),
      F("isApproved", Kw("boolean")),
      F("authorIp", Or(Or(Kw("string"), Kw("undefined")), Kw("null"))) >>)
  >>


bindings_ExtremeFloatValidation ==
  <<
    RecDecl("ExtremeFloatValidation", 463, <<
      F("id", Kw("string")),
      F("multiConstrainedF32", Kw("number")),
      F("optionalF32", Or(Or(Kw("number"), Kw("undefined")), Kw("null"))),
      F("normalizedF64", Kw("number")),
      F("optionalNormalizedF64", Or(Or(Kw("number"), Kw("undefined")), Kw("null"))),
      F("negativeF64", Kw("number")),
      F("optionalNegativeF64", Or(Or(Kw("number"), Kw("undefined")), Kw("null"))),
      F("currencyAmount", Kw("number")),
      F("optionalCurrency", Or(Or(Kw("number"), Kw("undefined")), Kw("null"))),
      F("percentage", Kw("number")),
      F("optionalPercentage", Or(Or(Kw("number"), Kw("undefined")), Kw("null"))),
      F("latitude", Kw("number")),
      F("longitude", Kw("number")),
      F("optionalLatitude", Or(Or(Kw("number"), Kw("undefined")), Kw("null"))),
      F("optionalLongitude", Or(Or(Kw("number"), Kw("undefined")), Kw("null"))) >>),
    RecDecl("ExtremeFloatValidation", 693, <<
      F("id", Kw("string")),
      F("multiConstrainedF32", Kw("number")),
      F("optionalF32", Or(Or(Kw("number"), Kw("undefined")), Kw("null"))),
      F("normalizedF64", Kw("number")),
      F("optionalNormalizedF64", Or(Or(Kw("number"), Kw("undefined")), Kw("null"))),
      F("negativeF64", Kw("number")),
      F("optionalNegativeF64", Or(Or(Kw("number"), Kw("undefined")), Kw("null"))),
      F("currencyAmount", Kw("number")),
      F("optionalCurrency", Or(Or(Kw("number"), Kw("undefined")), Kw("null"))),
      F("percentage", Kw("number")),
      F("optionalPercentage", Or(Or(Kw("number"), Kw("undefined")), Kw("null"))),
      F("latitude", Kw("number")),
      F("longitude", Kw("number")),
      F("optionalLatitude", Or(Or(Kw("number"), Kw("undefined")), Kw("null"))),
      F("optionalLongitude", Or(Or(Kw("number"), Kw("undefined")), Kw("null"))) >>)
  >>


bindings_Author ==
  <<
    RecDecl("Author", 550, <<
      F("id", Kw("string")),
      F("user", Or(Kw("user"), Kw("string"))),
      F("bio", Or(Or(Kw("string"), Kw("undefined")), Kw("null"))),
      F("avatarUrl", Or(Or(Kw("string"), Kw("undefined")), Kw("null"))),
      F("twitterHandle", Or(Or(Kw("string"), Kw("undefined")), Kw("null"))),
      F("githubHandle", Or(Or(Kw("string"), Kw("undefined")), Kw("null"))),
      F("createdAt", Kw("string")) >>),
    RecDecl("Author", 616, <<
      F("id", Kw("string")),
      F("user", Or(Kw("user"), Kw("string"))),
      F("bio", Or(Or(Kw("string"), Kw("undefined")), Kw("null"))),
      F("avatarUrl", Or(Or(Kw("string"), Kw("undefined")), Kw("null"))),
      F("twitterHandle", Or(Or(Kw("string"), Kw("undefined")), Kw("null"))),
      F("githubHandle", Or(Or(Kw("string"), Kw("undefined")), Kw("null"))),
      F("createdAt", Kw("string")) >>)
  >>


bindings_ValidatedContact ==
  <<
    RecDecl("ValidatedContact", 599, <<
      F("name", Kw("string")),
      F("email", Kw("string")),
      F("phone", Or(Or(Kw("string"), Kw("undefined")), Kw("null"))),
      F("title", Or(Or(Kw("string"), Kw("undefined")), Kw("null"))) >>)
  >>


bindings_AllIntegerTypes ==
  <<
    RecDecl("AllIntegerTypes", 645, <<
      F("id", Kw("string")),
      F("positiveU8", Kw("number")),
      F("positiveU16", Kw("number")),
      F("positiveU32", Kw("number")),
      F("positiveU64", Kw("number")),
      F("nonNegativeUsize", Kw("number")),
      F("positiveI8", Kw("number")),
      F("positiveI16", Kw("number")),
      F("positiveI32", Kw("number")),
      F("positiveI64", Kw("number")),
      F("nonNegativeIsize", Kw("number")) >>),
    RecDecl("AllIntegerTypes", 788, <<
      F("id", Kw("string")),
      F("positiveU8", Kw("number")),
      F("positiveU16", Kw("number")),
      F("positiveU32", Kw("number")),
      F("positiveU64", Kw("number")),
      F("nonNegativeUsize", Kw("number")),
      F("positiveI8", Kw("number")),
      F("positiveI16", Kw("number")),
      F("positiveI32", Kw("number")),
      F("positiveI64", Kw("number")),
      F("nonNegativeIsize", Kw("number")) >>)
  >>


bindings_OuterWithNestedValidator ==
  <<
    RecDecl("OuterWithNestedValidator", 722, <<
      F("id", Kw("string")),
      F("inner", Kw("innerValidated")),
      F("optionalInner", Or(Or(Kw("innerValidated"), Kw("undefined")), Kw("null"))),
      F("innerList", ArrOf(Kw("innerValidated"))) >>),
    RecDecl("OuterWithNestedValidator", 764, <<
      F("id", Kw("string")),
      F("inner", Kw("innerValidated")),
      F("optionalInner", Or(Or(Kw("innerValidated"), Kw("undefined")), Kw("null"))),
      F("innerList", ArrOf(Kw("innerValidated"))) >>)
  >>


bindings_CartItem ==
  <<
    RecDecl("CartItem", 801, <<
      F("productId", Kw("string")),
      F("productName", Kw("string")),
      F("quantity", Kw("number")),
      F("unitPrice", Kw("number")) >>)
  >>

\* scope({...}): the declarations in source order
bindings ==
  SortByLine(bindings_enums
    \o bindings_MaxValidatorStacking
    \o bindings_Customer
    \o bindings_Order
    \o bindings_ArrayValidationExtremes
    \o bindings_DateTimeExtremes
    \o bindings_NetworkTypes
    \o bindings_Session
    \o bindings_ComplexStringValidation
    \o bindings_FloatValidation
    \o bindings_NonEmptyOptionString
    \o bindings_ComplexIdentifiers
    \o bindings_Post
    \o bindings_KitchenSinkString
    \o bindings_MultipleNumberValidators
    \o bindings_BusinessExtremes
    \o bindings_DeepNestedValidation
    \o bindings_EdgeCasePost
    \o bindings_OptionalIntegerValidation
    \o bindings_Product
    \o bindings_ExtremeIntegerValidation
    \o bindings_User
    \o bindings_Tag
    \o bindings_EdgeCaseUser
    \o bindings_ValidatedAddress
    \o bindings_PersonalInfoExtremes
    \o bindings_Comment
    \o bindings_ComplexPayment
    \o bindings_CaseValidation
    \o bindings_IntegerBounds
    \o bindings_MultiValidatorOptionalString
    \o bindings_InnerValidated
    \o bindings_Address
    \o bindings_EdgeCaseComment
    \o bindings_ExtremeFloatValidation
    \o bindings_Author
    \o bindings_ValidatedContact
    \o bindings_AllIntegerTypes
    \o bindings_OuterWithNestedValidator
    \o bindings_CartItem)

\* ---- arktype.ts: the default constants, one definition per constant name, holding
\* every declaration of that name in source order.

defaultMaxValidatorStacking ==
  <<
    Default("MaxValidatorStacking", 811, Obj([
      id |-> Str(<<>>),
      megaValidatedString |-> Str(<<>>),
      optionalMegaValidated |-> Null,
      megaValidatedNumber |-> Num(0),
      megaValidatedU32 |-> Num(0),
      optionalMegaU32 |-> Null,
      megaValidatedI64 |-> Num(0),
      optionalMegaI64 |-> Null ])),
    Default("MaxValidatorStacking", 1320, Obj([
      id |-> Str(<<>>),
      megaValidatedString |-> Str(<<>>),
      optionalMegaValidated |-> Null,
      megaValidatedNumber |-> Num(0),
      megaValidatedU32 |-> Num(0),
      optionalMegaU32 |-> Null,
      megaValidatedI64 |-> Num(0),
      optionalMegaI64 |-> Null ]))
  >>


defaultCustomer ==
  <<
    Default("Customer", 821, Obj([
      id |-> Str(<<>>),
      user |-> Str(<<>>),
      shippingAddress |-> Null,
      billingAddress |-> Null,
      phone |-> Null,
      createdAt |-> Str(<<>>) ])),
    Default("Customer", 1312, Obj([
      id |-> Str(<<>>),
      user |-> Str(<<>>),
      shippingAddress |-> Null,
      billingAddress |-> Null,
      phone |-> Null,
      createdAt |-> Str(<<>>) ]))
  >>


defaultOrder ==
  <<
    Default("Order", 829, Obj([
      id |-> Str(<<>>),
      customer |-> Str(<<>>),
      items |-> Arr(<<>>),
      subtotal |-> Num(0),
      tax |-> Num(0),
      shippingCost |-> Num(0),
      total |-> Num(0),
      status |-> Str(<<"\"", "D", "e", "l", "i", "v", "e", "r", "e", "d">>),
      shippingAddress |-> Obj([street |-> Str(<<>>), city |-> Str(<<>>), state |-> Str(<<>>), postalCode |-> Str(<<>>), country |-> Str(<<>>)]),
      notes |-> Null,
      createdAt |-> Str(<<>>),
      shippedAt |-> Null,
      deliveredAt |-> Null ])),
    Default("Order", 1360, Obj([
      id |-> Str(<<>>),
      customer |-> Str(<<>>),
      items |-> Arr(<<>>),
      subtotal |-> Num(0),
      tax |-> Num(0),
      shippingCost |-> Num(0),
      total |-> Num(0),
      status |-> Str(<<"\"", "S", "h", "i", "p", "p", "e", "d">>),
      shippingAddress |-> Obj([street |-> Str(<<>>), city |-> Str(<<>>), state |-> Str(<<>>), postalCode |-> Str(<<>>), country |-> Str(<<>>)]),
      notes |-> Null,
      createdAt |-> Str(<<>>),
      shippedAt |-> Null,
      deliveredAt |-> Null ]))
  >>


defaultArrayValidationExtremes ==
  <<
    Default("ArrayValidationExtremes", 844, Obj([
      id |-> Str(<<>>),
      tags |-> Arr(<<>>),
      validatedEmails |-> Arr(<<>>),
      optionalTags |-> Null,
      scores |-> Arr(<<>>),
      optionalScores |-> Null,
      measurements |-> Arr(<<>>),
      addresses |-> Arr(<<>>),
      backupAddresses |-> Null ])),
    Default("ArrayValidationExtremes", 1546, Obj([
      id |-> Str(<<>>),
      tags |-> Arr(<<>>),
      validatedEmails |-> Arr(<<>>),
      optionalTags |-> Null,
      scores |-> Arr(<<>>),
      optionalScores |-> Null,
      measurements |-> Arr(<<>>),
      addresses |-> Arr(<<>>),
      backupAddresses |-> Null ]))
  >>


defaultDateTimeExtremes ==
  <<
    Default("DateTimeExtremes", 855, Obj([
      id |-> Str(<<>>),
      createdAt |-> Str(<<>>),
      optionalUpdatedAt |-> Null,
      birthDate |-> Str(<<>>),
      optionalExpiryDate |-> Null,
      startTime |-> Str(<<>>),
      optionalEndTime |-> Null,
      appointment |-> Str(<<>>),
      optionalFollowup |-> Null,
      duration |-> Str(<<>>),
      optionalDuration |-> Null,
      timezone |-> Str(<<>>),
      optionalTimezone |-> Null,
      deadline |-> Str(<<>>),
      optionalTargetDate |-> Null ])),
    Default("DateTimeExtremes", 1459, Obj([
      id |-> Str(<<>>),
      createdAt |-> Str(<<>>),
      optionalUpdatedAt |-> Null,
      birthDate |-> Str(<<>>),
      optionalExpiryDate |-> Null,
      startTime |-> Str(<<>>),
      optionalEndTime |-> Null,
      appointment |-> Str(<<>>),
      optionalFollowup |-> Null,
      duration |-> Str(<<>>),
      optionalDuration |-> Null,
      timezone |-> Str(<<>>),
      optionalTimezone |-> Null,
      deadline |-> Str(<<>>),
      optionalTargetDate |-> Null ]))
  >>


defaultNetworkTypes ==
  <<
    Default("NetworkTypes", 872, Obj([
      id |-> Str(<<>>),
      ipAddress |-> Str(<<>>),
      optionalIp |-> Null,
      macAddress |-> Str(<<>>),
      optionalMac |-> Null,
      internalApiUrl |-> Str(<<>>),
      optionalStorageUrl |-> Null,
      userAgent |-> Str(<<>>),
      optionalUserAgent |-> Null ])),
    Default("NetworkTypes", 883, Obj([
      id |-> Str(<<>>),
      ipAddress |-> Str(<<>>),
      optionalIp |-> Null,
      macAddress |-> Str(<<>>),
      optionalMac |-> Null,
      internalApiUrl |-> Str(<<>>),
      optionalStorageUrl |-> Null,
      userAgent |-> Str(<<>>),
      optionalUserAgent |-> Null ]))
  >>


defaultSession ==
  <<
    Default("Session", 894, Obj([
      id |-> Str(<<>>),
      user |-> Str(<<>>),
      token |-> Str(<<>>),
      expiresAt |-> Str(<<>>),
      createdAt |-> Str(<<>>) ])),
    Default("Session", 1188, Obj([
      id |-> Str(<<>>),
      user |-> Str(<<>>),
      token |-> Str(<<>>),
      expiresAt |-> Str(<<>>),
      createdAt |-> Str(<<>>) ]))
  >>


defaultComplexStringValidation ==
  <<
    Default("ComplexStringValidation", 901, Obj([
      id |-> Str(<<>>),
      optionalUuid |-> Null,
      optionalIp |-> Null,
      optionalIpv4 |-> Null,
      optionalDigits |-> Null,
      optionalHex |-> Null,
      optionalAlpha |-> Null,
      optionalAlphanumeric |-> Null,
      optionalDomain |-> Null,
      optionalWithAt |-> Null ])),
    Default("ComplexStringValidation", 1511, Obj([
      id |-> Str(<<>>),
      optionalUuid |-> Null,
      optionalIp |-> Null,
      optionalIpv4 |-> Null,
      optionalDigits |-> Null,
      optionalHex |-> Null,
      optionalAlpha |-> Null,
      optionalAlphanumeric |-> Null,
      optionalDomain |-> Null,
      optionalWithAt |-> Null ]))
  >>


defaultFloatValidation ==
  <<
    Default("FloatValidation", 913, Obj([
      id |-> Str(<<>>),
      positiveFloat |-> Num(0),
      nonNegativeFloat |-> Num(0),
      normalized |-> Num(0),
      optionalPositiveFloat |-> Null ])),
    Default("FloatValidation", 1181, Obj([
      id |-> Str(<<>>),
      positiveFloat |-> Num(0),
      nonNegativeFloat |-> Num(0),
      normalized |-> Num(0),
      optionalPositiveFloat |-> Null ]))
  >>


defaultNonEmptyOptionString ==
  <<
    Default("NonEmptyOptionString", 920, Obj([
      id |-> Str(<<>>),
      optionalNonEmpty |-> Null,
      optionalMinThree |-> Null ])),
    Default("NonEmptyOptionString", 1406, Obj([
      id |-> Str(<<>>),
      optionalNonEmpty |-> Null,
      optionalMinThree |-> Null ]))
  >>


defaultComplexIdentifiers ==
  <<
    Default("ComplexIdentifiers", 925, Obj([
      id |-> Str(<<>>),
      uuidField |-> Str(<<>>),
      optionalUuid |-> Null,
      hexId32 |-> Str(<<>>),
      optionalHexId |-> Null,
      base64Token |-> Str(<<>>),
      optionalBase64Token |-> Null,
      version |-> Str(<<>>),
      optionalVersion |-> Null,
      sha256Hash |-> Str(<<>>),
      optionalHash |-> Null ])),
    Default("ComplexIdentifiers", 962, Obj([
      id |-> Str(<<>>),
      uuidField |-> Str(<<>>),
      optionalUuid |-> Null,
      hexId32 |-> Str(<<>>),
      optionalHexId |-> Null,
      base64Token |-> Str(<<>>),
      optionalBase64Token |-> Null,
      version |-> Str(<<>>),
      optionalVersion |-> Null,
      sha256Hash |-> Str(<<>>),
      optionalHash |-> Null ]))
  >>


defaultPost ==
  <<
    Default("Post", 938, Obj([
      id |-> Str(<<>>),
      title |-> Str(<<>>),
      slug |-> Str(<<>>),
      content |-> Str(<<>>),
      excerpt |-> Null,
      author |-> Str(<<>>),
      tags |-> Arr(<<>>),
      featuredImage |-> Null,
      published |-> Bool(FALSE),
      publishedAt |-> Null,
      viewCount |-> Num(0),
      createdAt |-> Str(<<>>),
      updatedAt |-> Str(<<>>) ])),
    Default("Post", 1297, Obj([
      id |-> Str(<<>>),
      title |-> Str(<<>>),
      slug |-> Str(<<>>),
      content |-> Str(<<>>),
      excerpt |-> Null,
      author |-> Str(<<>>),
      tags |-> Arr(<<>>),
      featuredImage |-> Null,
      published |-> Bool(FALSE),
      publishedAt |-> Null,
      viewCount |-> Num(0),
      createdAt |-> Str(<<>>),
      updatedAt |-> Str(<<>>) ]))
  >>


defaultKitchenSinkString ==
  <<
    Default("KitchenSinkString", 953, Obj([
      id |-> Str(<<>>),
      strictUsername |-> Str(<<>>),
      optionalStrictUsername |-> Null,
      validatedEmail |-> Str(<<>>),
      optionalValidatedEmail |-> Null,
      apiEndpoint |-> Str(<<>>),
      optionalCdnUrl |-> Null ])),
    Default("KitchenSinkString", 1537, Obj([
      id |-> Str(<<>>),
      strictUsername |-> Str(<<>>),
      optionalStrictUsername |-> Null,
      validatedEmail |-> Str(<<>>),
      optionalValidatedEmail |-> Null,
      apiEndpoint |-> Str(<<>>),
      optionalCdnUrl |-> Null ]))
  >>


defaultMultipleNumberValidators ==
  <<
    Default("MultipleNumberValidators", 975, Obj([
      id |-> Str(<<>>),
      boundedPositive |-> Num(0),
      optionalByte |-> Null,
      percentage |-> Num(0) ])),
    Default("MultipleNumberValidators", 1583, Obj([
      id |-> Str(<<>>),
      boundedPositive |-> Num(0),
      optionalByte |-> Null,
      percentage |-> Num(0) ]))
  >>


defaultBusinessExtremes ==
  <<
    Default("BusinessExtremes", 981, Obj([
      id |-> Str(<<>>),
      companyName |-> Str(<<>>),
      jobTitle |-> Str(<<>>),
      optionalParentCompany |-> Null,
      productName |-> Str(<<>>),
      sku |-> Str(<<>>),
      optionalVariantName |-> Null,
      optionalVariantSku |-> Null,
      price |-> Num(0),
      optionalDiscount |-> Null,
      quantity |-> Num(0),
      optionalMinQuantity |-> Null,
      testCardNumber |-> Str(<<>>),
      optionalBackupCard |-> Null ])),
    Default("BusinessExtremes", 1281, Obj([
      id |-> Str(<<>>),
      companyName |-> Str(<<>>),
      jobTitle |-> Str(<<>>),
      optionalParentCompany |-> Null,
      productName |-> Str(<<>>),
      sku |-> Str(<<>>),
      optionalVariantName |-> Null,
      optionalVariantSku |-> Null,
      price |-> Num(0),
      optionalDiscount |-> Null,
      quantity |-> Num(0),
      optionalMinQuantity |-> Null,
      testCardNumber |-> Str(<<>>),
      optionalBackupCard |-> Null ]))
  >>

\* defaultDeepNestedValidation with the zero value in the optional creditLimit
defaultDeepNestedValidation_creditLimitZero ==
  <<
    Default("DeepNestedValidation", 997, Obj([
      id |-> Str(<<>>),
      name |-> Str(<<>>),
      primaryAddress |-> Obj([street |-> Str(<<>>), city |-> Str(<<>>), stateCode |-> Str(<<>>), postalCode |-> Str(<<>>), countryCode |-> Str(<<>>), latitude |-> Null, longitude |-> Null]),
      billingAddress |-> Null,
      shippingAddresses |-> Arr(<<>>),
      primaryContact |-> Obj([name |-> Str(<<>>), email |-> Str(<<>>), phone |-> Null, title |-> Null]),
      secondaryContact |-> Null,
      additionalContacts |-> Arr(<<>>),
      totalOrders |-> Num(0),
      totalSpent |-> Num(0),
      creditLimit |-> Num(0) ])),
    Default("DeepNestedValidation", 1131, Obj([
      id |-> Str(<<>>),
      name |-> Str(<<>>),
      primaryAddress |-> Obj([street |-> Str(<<>>), city |-> Str(<<>>), stateCode |-> Str(<<>>), postalCode |-> Str(<<>>), countryCode |-> Str(<<>>), latitude |-> Null, longitude |-> Null]),
      billingAddress |-> Null,
      shippingAddresses |-> Arr(<<>>),
      primaryContact |-> Obj([name |-> Str(<<>>), email |-> Str(<<>>), phone |-> Null, title |-> Null]),
      secondaryContact |-> Null,
      additionalContacts |-> Arr(<<>>),
      totalOrders |-> Num(0),
      totalSpent |-> Num(0),
      creditLimit |-> Num(0) ]))
  >>


defaultDeepNestedValidation ==
  <<
    Default("DeepNestedValidation", 997, Obj([
      id |-> Str(<<>>),
      name |-> Str(<<>>),
      primaryAddress |-> Obj([street |-> Str(<<>>), city |-> Str(<<>>), stateCode |-> Str(<<>>), postalCode |-> Str(<<>>), countryCode |-> Str(<<>>), latitude |-> Null, longitude |-> Null]),
      billingAddress |-> Null,
      shippingAddresses |-> Arr(<<>>),
      primaryContact |-> Obj([name |-> Str(<<>>), email |-> Str(<<>>), phone |-> Null, title |-> Null]),
      secondaryContact |-> Null,
      additionalContacts |-> Arr(<<>>),
      totalOrders |-> Num(0),
      totalSpent |-> Num(0),
      creditLimit |-> Null ])),
    Default("DeepNestedValidation", 1131, Obj([
      id |-> Str(<<>>),
      name |-> Str(<<>>),
      primaryAddress |-> Obj([street |-> Str(<<>>), city |-> Str(<<>>), stateCode |-> Str(<<>>), postalCode |-> Str(<<>>), countryCode |-> Str(<<>>), latitude |-> Null, longitude |-> Null]),
      billingAddress |-> Null,
      shippingAddresses |-> Arr(<<>>),
      primaryContact |-> Obj([name |-> Str(<<>>), email |-> Str(<<>>), phone |-> Null, title |-> Null]),
      secondaryContact |-> Null,
      additionalContacts |-> Arr(<<>>),
      totalOrders |-> Num(0),
      totalSpent |-> Num(0),
      creditLimit |-> Null ]))
  >>


defaultEdgeCasePost ==
  <<
    Default("EdgeCasePost", 1010, Obj([
      id |-> Str(<<>>),
      author |-> Str(<<>>),
      title |-> Str(<<>>),
      content |-> Str(<<>>),
      slug |-> Str(<<>>),
      createdAt |-> Str(<<>>),
      updatedAt |-> Null,
      viewCount |-> Num(0),
      likeCount |-> Num(0),
      isPublished |-> Bool(FALSE),
      featuredImage |-> Null,
      metaDescription |-> Null ])),
    Default("EdgeCasePost", 1031, Obj([
      id |-> Str(<<>>),
      author |-> Str(<<>>),
      title |-> Str(<<>>),
      content |-> Str(<<>>),
      slug |-> Str(<<>>),
      createdAt |-> Str(<<>>),
      updatedAt |-> Null,
      viewCount |-> Num(0),
      likeCount |-> Num(0),
      isPublished |-> Bool(FALSE),
      featuredImage |-> Null,
      metaDescription |-> Null ]))
  >>


defaultOptionalIntegerValidation ==
  <<
    Default("OptionalIntegerValidation", 1024, Obj([
      id |-> Str(<<>>),
      optionalPositiveU32 |-> Null,
      optionalNonNegativeI32 |-> Null,
      optionalPositiveU64 |-> Null,
      optionalNegativeI64 |-> Null ])),
    Default("OptionalIntegerValidation", 1144, Obj([
      id |-> Str(<<>>),
      optionalPositiveU32 |-> Null,
      optionalNonNegativeI32 |-> Null,
      optionalPositiveU64 |-> Null,
      optionalNegativeI64 |-> Null ]))
  >>


defaultProduct ==
  <<
    Default("Product", 1045, Obj([
      id |-> Str(<<>>),
      name |-> Str(<<>>),
      description |-> Str(<<>>),
      price |-> Num(0),
      stockQuantity |-> Num(0),
      category |-> Str(<<"\"", "S", "p", "o", "r", "t", "s">>),
      imageUrl |-> Null,
      isAvailable |-> Bool(FALSE),
      createdAt |-> Str(<<>>) ])),
    Default("Product", 1340, Obj([
      id |-> Str(<<>>),
      name |-> Str(<<>>),
      description |-> Str(<<>>),
      price |-> Num(0),
      stockQuantity |-> Num(0),
      category |-> Str(<<"\"", "E", "l", "e", "c", "t", "r", "o", "n", "i", "c", "s">>),
      imageUrl |-> Null,
      isAvailable |-> Bool(FALSE),
      createdAt |-> Str(<<>>) ]))
  >>


defaultExtremeIntegerValidation ==
  <<
    Default("ExtremeIntegerValidation", 1056, Obj([
      id |-> Str(<<>>),
      constrainedU8 |-> Num(0),
      optionalConstrainedU8 |-> Null,
      boundedU16 |-> Num(0),
      optionalBoundedU16 |-> Null,
      percentageU32 |-> Num(0),
      optionalPercentageU32 |-> Null,
      largeU64 |-> Num(0),
      optionalLargeU64 |-> Null,
      negativeI8 |-> Num(0),
      optionalNegativeI8 |-> Null,
      nonPositiveI16 |-> Num(0),
      optionalNonPositiveI16 |-> Null,
      boundedI32 |-> Num(0),
      optionalBoundedI32 |-> Null,
      constrainedI64 |-> Num(0),
      optionalNonNegativeI64 |-> Null,
      boundedUsize |-> Num(0),
      optionalBoundedUsize |-> Null,
      boundedIsize |-> Num(0),
      optionalPositiveIsize |-> Null ])),
    Default("ExtremeIntegerValidation", 1195, Obj([
      id |-> Str(<<>>),
      constrainedU8 |-> Num(0),
      optionalConstrainedU8 |-> Null,
      boundedU16 |-> Num(0),
      optionalBoundedU16 |-> Null,
      percentageU32 |-> Num(0),
      optionalPercentageU32 |-> Null,
      largeU64 |-> Num(0),
      optionalLargeU64 |-> Null,
      negativeI8 |-> Num(0),
      optionalNegativeI8 |-> Null,
      nonPositiveI16 |-> Num(0),
      optionalNonPositiveI16 |-> Null,
      boundedI32 |-> Num(0),
      optionalBoundedI32 |-> Null,
      constrainedI64 |-> Num(0),
      optionalNonNegativeI64 |-> Null,
      boundedUsize |-> Num(0),
      optionalBoundedUsize |-> Null,
      boundedIsize |-> Num(0),
      optionalPositiveIsize |-> Null ]))
  >>


defaultUser ==
  <<
    Default("User", 1079, Obj([
      id |-> Str(<<>>),
      email |-> Str(<<>>),
      username |-> Str(<<>>),
      passwordHash |-> Str(<<>>),
      roles |-> Arr(<<>>),
      isActive |-> Bool(FALSE),
      createdAt |-> Str(<<>>),
      updatedAt |-> Str(<<>>) ])),
    Default("User", 1330, Obj([
      id |-> Str(<<>>),
      email |-> Str(<<>>),
      username |-> Str(<<>>),
      passwordHash |-> Str(<<>>),
      roles |-> Arr(<<>>),
      isActive |-> Bool(FALSE),
      createdAt |-> Str(<<>>),
      updatedAt |-> Str(<<>>) ]))
  >>


defaultTag ==
  <<
    Default("Tag", 1089, Obj([
      id |-> Str(<<>>),
      name |-> Str(<<>>),
      slug |-> Str(<<>>),
      description |-> Null,
      postCount |-> Num(0) ])),
    Default("Tag", 1375, Obj([
      id |-> Str(<<>>),
      name |-> Str(<<>>),
      slug |-> Str(<<>>),
      description |-> Null,
      postCount |-> Num(0) ]))
  >>


defaultEdgeCaseUser ==
  <<
    Default("EdgeCaseUser", 1096, Obj([
      id |-> Str(<<>>),
      email |-> Str(<<>>),
      username |-> Str(<<>>),
      createdAt |-> Str(<<>>),
      loginCount |-> Num(0),
      rating |-> Null ])),
    Default("EdgeCaseUser", 1529, Obj([
      id |-> Str(<<>>),
      email |-> Str(<<>>),
      username |-> Str(<<>>),
      createdAt |-> Str(<<>>),
      loginCount |-> Num(0),
      rating |-> Null ]))
  >>


defaultValidatedAddress ==
  <<
    Default("ValidatedAddress", 1104, Obj([
      street |-> Str(<<>>),
      city |-> Str(<<>>),
      stateCode |-> Str(<<>>),
      postalCode |-> Str(<<>>),
      countryCode |-> Str(<<>>),
      latitude |-> Null,
      longitude |-> Null ]))
  >>


defaultPersonalInfoExtremes ==
  <<
    Default("PersonalInfoExtremes", 1113, Obj([
      id |-> Str(<<>>),
      firstName |-> Str(<<>>),
      lastName |-> Str(<<>>),
      fullName |-> Str(<<>>),
      optionalNickname |-> Null,
      phone |-> Str(<<>>),
      optionalMobile |-> Null,
      email |-> Str(<<>>),
      optionalWorkEmail |-> Null,
      street |-> Str(<<>>),
      city |-> Str(<<>>),
      state |-> Str(<<>>),
      postalCode |-> Str(<<>>),
      country |-> Str(<<>>),
      optionalStreet |-> Null,
      optionalCity |-> Null ])),
    Default("PersonalInfoExtremes", 1476, Obj([
      id |-> Str(<<>>),
      firstName |-> Str(<<>>),
      lastName |-> Str(<<>>),
      fullName |-> Str(<<>>),
      optionalNickname |-> Null,
      phone |-> Str(<<>>),
      optionalMobile |-> Null,
      email |-> Str(<<>>),
      optionalWorkEmail |-> Null,
      street |-> Str(<<>>),
      city |-> Str(<<>>),
      state |-> Str(<<>>),
      postalCode |-> Str(<<>>),
      country |-> Str(<<>>),
      optionalStreet |-> Null,
      optionalCity |-> Null ]))
  >>


defaultComment ==
  <<
    Default("Comment", 1151, Obj([
      id |-> Str(<<>>),
      post |-> Str(<<>>),
      author |-> Str(<<>>),
      content |-> Str(<<>>),
      parentCommentId |-> Null,
      isApproved |-> Bool(FALSE),
      createdAt |-> Str(<<>>),
      editedAt |-> Null ])),
    Default("Comment", 1382, Obj([
      id |-> Str(<<>>),
      post |-> Str(<<>>),
      author |-> Str(<<>>),
      content |-> Str(<<>>),
      parentCommentId |-> Null,
      isApproved |-> Bool(FALSE),
      createdAt |-> Str(<<>>),
      editedAt |-> Null ]))
  >>


defaultComplexPayment ==
  <<
    Default("ComplexPayment", 1161, Obj([
      id |-> Str(<<>>),
      user |-> Str(<<>>),
      status |-> Str(<<"\"", "R", "e", "f", "u", "n", "d", "e", "d">>),
      method |-> Str(<<"\"", "D", "e", "b", "i", "t", "C", "a", "r", "d">>),
      amount |-> Num(0),
      currency |-> Str(<<>>),
      fee |-> Num(0),
      tax |-> Num(0),
      total |-> Num(0),
      transactionId |-> Str(<<>>),
      referenceCode |-> Null,
      createdAt |-> Str(<<>>),
      processedAt |-> Null,
      completedAt |-> Null,
      billingAddress |-> Obj([street |-> Str(<<>>), city |-> Str(<<>>), stateCode |-> Str(<<>>), postalCode |-> Str(<<>>), countryCode |-> Str(<<>>), latitude |-> Null, longitude |-> Null]),
      notes |-> Null,
      retryCount |-> Num(0),
      failureReason |-> Null ])),
    Default("ComplexPayment", 1426, Obj([
      id |-> Str(<<>>),
      user |-> Str(<<>>),
      status |-> Str(<<"\"", "C", "a", "n", "c", "e", "l", "l", "e", "d">>),
      method |-> Str(<<"\"", "C", "a", "s", "h">>),
      amount |-> Num(0),
      currency |-> Str(<<>>),
      fee |-> Num(0),
      tax |-> Num(0),
      total |-> Num(0),
      transactionId |-> Str(<<>>),
      referenceCode |-> Null,
      createdAt |-> Str(<<>>),
      processedAt |-> Null,
      completedAt |-> Null,
      billingAddress |-> Obj([street |-> Str(<<>>), city |-> Str(<<>>), stateCode |-> Str(<<>>), postalCode |-> Str(<<>>), countryCode |-> Str(<<>>), latitude |-> Null, longitude |-> Null]),
      notes |-> Null,
      retryCount |-> Num(0),
      failureReason |-> Null ]))
  >>


defaultCaseValidation ==
  <<
    Default("CaseValidation", 1218, Obj([
      id |-> Str(<<>>),
      optionalLowercase |-> Null,
      optionalUppercase |-> Null,
      optionalCapitalized |-> Null,
      optionalUncapitalized |-> Null,
      optionalTrimmed |-> Null ])),
    Default("CaseValidation", 1392, Obj([
      id |-> Str(<<>>),
      optionalLowercase |-> Null,
      optionalUppercase |-> Null,
      optionalCapitalized |-> Null,
      optionalUncapitalized |-> Null,
      optionalTrimmed |-> Null ]))
  >>


defaultIntegerBounds ==
  <<
    Default("IntegerBounds", 1226, Obj([
      id |-> Str(<<>>),
      percentage |-> Num(0),
      aboveZero |-> Num(0),
      underThousand |-> Num(0),
      optionalByteValue |-> Null,
      optionalBounded |-> Null ])),
    Default("IntegerBounds", 1557, Obj([
      id |-> Str(<<>>),
      percentage |-> Num(0),
      aboveZero |-> Num(0),
      underThousand |-> Num(0),
      optionalByteValue |-> Null,
      optionalBounded |-> Null ]))
  >>


defaultMultiValidatorOptionalString ==
  <<
    Default("MultiValidatorOptionalString", 1234, Obj([
      id |-> Str(<<>>),
      username |-> Null,
      email |-> Null,
      website |-> Null ])),
    Default("MultiValidatorOptionalString", 1411, Obj([
      id |-> Str(<<>>),
      username |-> Null,
      email |-> Null,
      website |-> Null ]))
  >>


defaultInnerValidated ==
  <<
    Default("InnerValidated", 1240, Obj([
      name |-> Str(<<>>),
      count |-> Num(0),
      optionalEmail |-> Null ]))
  >>


defaultAddress ==
  <<
    Default("Address", 1245, Obj([
      street |-> Str(<<>>),
      city |-> Str(<<>>),
      state |-> Str(<<>>),
      postalCode |-> Str(<<>>),
      country |-> Str(<<>>) ]))
  >>


defaultEdgeCaseComment ==
  <<
    Default("EdgeCaseComment", 1252, Obj([
      id |-> Str(<<>>),
      post |-> Str(<<>>),
      author |-> Str(<<>>),
      content |-> Str(<<>>),
      createdAt |-> Str(<<>>),
      editedAt |-> Null,
      likeCount |-> Num(0),
      parentCommentId |-> Null,
      isApproved |-> Bool(FALSE),
      authorIp |-> Null ])),
    Default("EdgeCaseComment", 1571, Obj([
      id |-> Str(<<>>),
      post |-> Str(<<>>),
      author |-> Str(<<>>),
      content |-> Str(<<>>),
      createdAt |-> Str(<<>>),
      editedAt |-> Null,
      likeCount |-> Num(0),
      parentCommentId |-> Null,
      isApproved |-> Bool(FALSE),
      authorIp |-> Null ]))
  >>


defaultExtremeFloatValidation ==
  <<
    Default("ExtremeFloatValidation", 1264, Obj([
      id |-> Str(<<>>),
      multiConstrainedF32 |-> Num(0),
      optionalF32 |-> Null,
      normalizedF64 |-> Num(0),
      optionalNormalizedF64 |-> Null,
      negativeF64 |-> Num(0),
      optionalNegativeF64 |-> Null,
      currencyAmount |-> Num(0),
      optionalCurrency |-> Null,
      percentage |-> Num(0),
      optionalPercentage |-> Null,
      latitude |-> Num(0),
      longitude |-> Num(0),
      optionalLatitude |-> Null,
      optionalLongitude |-> Null ])),
    Default("ExtremeFloatValidation", 1494, Obj([
      id |-> Str(<<>>),
      multiConstrainedF32 |-> Num(0),
      optionalF32 |-> Null,
      normalizedF64 |-> Num(0),
      optionalNormalizedF64 |-> Null,
      negativeF64 |-> Num(0),
      optionalNegativeF64 |-> Null,
      currencyAmount |-> Num(0),
      optionalCurrency |-> Null,
      percentage |-> Num(0),
      optionalPercentage |-> Null,
      latitude |-> Num(0),
      longitude |-> Num(0),
      optionalLatitude |-> Null,
      optionalLongitude |-> Null ]))
  >>


defaultAuthor ==
  <<
    Default("Author", 1351, Obj([
      id |-> Str(<<>>),
      user |-> Str(<<>>),
      bio |-> Null,
      avatarUrl |-> Null,
      twitterHandle |-> Null,
      githubHandle |-> Null,
      createdAt |-> Str(<<>>) ])),
    Default("Author", 1417, Obj([
      id |-> Str(<<>>),
      user |-> Str(<<>>),
      bio |-> Null,
      avatarUrl |-> Null,
      twitterHandle |-> Null,
      githubHandle |-> Null,
      createdAt |-> Str(<<>>) ]))
  >>

\* defaultValidatedContact with an empty string for phone
defaultValidatedContact_phoneEmpty ==
  <<
    Default("ValidatedContact", 1400, Obj([
      name |-> Str(<<>>),
      email |-> Str(<<>>),
      phone |-> Str(<<>>),
      title |-> Null ]))
  >>


defaultValidatedContact ==
  <<
    Default("ValidatedContact", 1400, Obj([
      name |-> Str(<<>>),
      email |-> Str(<<>>),
      phone |-> Null,
      title |-> Null ]))
  >>


defaultAllIntegerTypes ==
  <<
    Default("AllIntegerTypes", 1446, Obj([
      id |-> Str(<<>>),
      positiveU8 |-> Num(0),
      positiveU16 |-> Num(0),
      positiveU32 |-> Num(0),
      positiveU64 |-> Num(0),
      nonNegativeUsize |-> Num(0),
      positiveI8 |-> Num(0),
      positiveI16 |-> Num(0),
      positiveI32 |-> Num(0),
      positiveI64 |-> Num(0),
      nonNegativeIsize |-> Num(0) ])),
    Default("AllIntegerTypes", 1589, Obj([
      id |-> Str(<<>>),
      positiveU8 |-> Num(0),
      positiveU16 |-> Num(0),
      positiveU32 |-> Num(0),
      positiveU64 |-> Num(0),
      nonNegativeUsize |-> Num(0),
      positiveI8 |-> Num(0),
      positiveI16 |-> Num(0),
      positiveI32 |-> Num(0),
      positiveI64 |-> Num(0),
      nonNegativeIsize |-> Num(0) ]))
  >>


defaultOuterWithNestedValidator ==
  <<
    Default("OuterWithNestedValidator", 1523, Obj([
      id |-> Str(<<>>),
      inner |-> Obj([name |-> Str(<<>>), count |-> Num(0), optionalEmail |-> Null]),
      optionalInner |-> Null,
      innerList |-> Arr(<<>>) ])),
    Default("OuterWithNestedValidator", 1565, Obj([
      id |-> Str(<<>>),
      inner |-> Obj([name |-> Str(<<>>), count |-> Num(0), optionalEmail |-> Null]),
      optionalInner |-> Null,
      innerList |-> Arr(<<>>) ]))
  >>


defaultCartItem ==
  <<
    Default("CartItem", 1602, Obj([
      productId |-> Str(<<>>),
      productName |-> Str(<<>>),
      quantity |-> Num(0),
      unitPrice |-> Num(0) ]))
  >>

\* every default constant of the file, in source order
defaults ==
  SortByLine(defaultMaxValidatorStacking
    \o defaultCustomer
    \o defaultOrder
    \o defaultArrayValidationExtremes
    \o defaultDateTimeExtremes
    \o defaultNetworkTypes
    \o defaultSession
    \o defaultComplexStringValidation
    \o defaultFloatValidation
    \o defaultNonEmptyOptionString
    \o defaultComplexIdentifiers
    \o defaultPost
    \o defaultKitchenSinkString
    \o defaultMultipleNumberValidators
    \o defaultBusinessExtremes
    \o defaultDeepNestedValidation
    \o defaultEdgeCasePost
    \o defaultOptionalIntegerValidation
    \o defaultProduct
    \o defaultExtremeIntegerValidation
    \o defaultUser
    \o defaultTag
    \o defaultEdgeCaseUser
    \o defaultValidatedAddress
    \o defaultPersonalInfoExtremes
    \o defaultComment
    \o defaultComplexPayment
    \o defaultCaseValidation
    \o defaultIntegerBounds
    \o defaultMultiValidatorOptionalString
    \o defaultInnerValidated
    \o defaultAddress
    \o defaultEdgeCaseComment
    \o defaultExtremeFloatValidation
    \o defaultAuthor
    \o defaultValidatedContact
    \o defaultAllIntegerTypes
    \o defaultOuterWithNestedValidator
    \o defaultCartItem)

\* ---- bindings.ts: the schema classes and enums, in source order
\* Address with the limit of city on the length of street
Address_streetLimit100 ==
  Class("Address", <<
    Field("street", propertySignature(Pipe(String, <<nonEmptyString, nonEmptyString, maxLength(100)>>))),
    Field("city", propertySignature(Pipe(String, <<nonEmptyString, nonEmptyString, maxLength(100)>>))),
    Field("state", propertySignature(Pipe(String, <<nonEmptyString, maxLength(100)>>))),
    Field("postalCode", propertySignature(Pipe(String, <<nonEmptyString, nonEmptyString, maxLength(20)>>))),
    Field("country", propertySignature(Pipe(String, <<nonEmptyString, nonEmptyString, minLength(2), maxLength(2), toUpperCase>>))) >>)


Address ==
  Class("Address", <<
    Field("street", propertySignature(Pipe(String, <<nonEmptyString, nonEmptyString, maxLength(200)>>))),
    Field("city", propertySignature(Pipe(String, <<nonEmptyString, nonEmptyString, maxLength(100)>>))),
    Field("state", propertySignature(Pipe(String, <<nonEmptyString, maxLength(100)>>))),
    Field("postalCode", propertySignature(Pipe(String, <<nonEmptyString, nonEmptyString, maxLength(20)>>))),
    Field("country", propertySignature(Pipe(String, <<nonEmptyString, nonEmptyString, minLength(2), maxLength(2), toUpperCase>>))) >>)


Role ==
  Union(<<Literal(<<"A", "d", "m", "i", "n">>),
          Literal(<<"M", "o", "d", "e", "r", "a", "t", "o", "r">>),
          Literal(<<"U", "s", "e", "r">>),
          Literal(<<"G", "u", "e", "s", "t">>)>>)


User ==
  Class("User", <<
    Field("id", propertySignature(Pipe(String, <<nonEmptyString>>))),
    Field("email", propertySignature(Pipe(String, <<nonEmptyString, minLength(5), maxLength(255)>>))),
    Field("username", propertySignature(Pipe(String, <<nonEmptyString, minLength(3), maxLength(50)>>))),
    Field("passwordHash", propertySignature(Pipe(String, <<nonEmptyString, nonEmptyString>>))),
    Field("roles", propertySignature(Array(Role))),
    Field("isActive", propertySignature(Boolean)),
    Field("createdAt", propertySignature(Pipe(String, <<nonEmptyString>>))),
    Field("updatedAt", propertySignature(Pipe(String, <<nonEmptyString>>))) >>)

\* Customer with `undefined` as the encoding of "no value" for its optional
\* fields (OptionFromNullishOr(..., undefined)) in place of `null`
Customer_onNoneUndefined ==
  Class("Customer", <<
    Field("id", propertySignature(Pipe(String, <<nonEmptyString>>))),
    Field("user", propertySignature(annotations(Union(<<Pipe(String, <<nonEmptyString>>), User>>), messageOverride))),
    Field("shippingAddress", OptionFromNullishOr(Address, Undefined)),
    Field("billingAddress", OptionFromNullishOr(Address, Undefined)),
    Field("phone", OptionFromNullishOr(Pipe(String, <<nonEmptyString>>), Undefined)),
    Field("createdAt", propertySignature(Pipe(String, <<nonEmptyString>>))) >>)

\* Customer whose user identifier is normalized to upper case
Customer_userIdUpperCased ==
  Class("Customer", <<
    Field("id", propertySignature(Pipe(String, <<nonEmptyString>>))),
    Field("user", propertySignature(annotations(Union(<<Pipe(String, <<nonEmptyString, toUpperCase>>), User>>), messageOverride))),
    Field("shippingAddress", OptionFromNullishOr(Address, Null)),
    Field("billingAddress", OptionFromNullishOr(Address, Null)),
    Field("phone", OptionFromNullishOr(Pipe(String, <<nonEmptyString>>), Null)),
    Field("createdAt", propertySignature(Pipe(String, <<nonEmptyString>>))) >>)


Customer ==
  Class("Customer", <<
    Field("id", propertySignature(Pipe(String, <<nonEmptyString>>))),
    Field("user", propertySignature(annotations(Union(<<Pipe(String, <<nonEmptyString>>), User>>), messageOverride))),
    Field("shippingAddress", OptionFromNullishOr(Address, Null)),
    Field("billingAddress", OptionFromNullishOr(Address, Null)),
    Field("phone", OptionFromNullishOr(Pipe(String, <<nonEmptyString>>), Null)),
    Field("createdAt", propertySignature(Pipe(String, <<nonEmptyString>>))) >>)


Tag ==
  Class("Tag", <<
    Field("id", propertySignature(Pipe(String, <<nonEmptyString>>))),
    Field("name", propertySignature(Pipe(String, <<nonEmptyString, nonEmptyString, maxLength(100)>>))),
    Field("slug", propertySignature(Pipe(String, <<nonEmptyString, nonEmptyString, maxLength(100), toLowerCase>>))),
    Field("description", Pipe(OptionFromNullishOr(Pipe(String, <<nonEmptyString>>), Null), <<maxLength(500)>>)),
    Field("postCount", propertySignature(Pipe(Number, <<nonNegative>>))) >>)


Author ==
  Class("Author", <<
    Field("id", propertySignature(Pipe(String, <<nonEmptyString>>))),
    Field("user", propertySignature(annotations(Union(<<Pipe(String, <<nonEmptyString>>), User>>), messageOverride))),
    Field("bio", Pipe(OptionFromNullishOr(Pipe(String, <<nonEmptyString>>), Null), <<maxLength(2000)>>)),
    Field("avatarUrl", OptionFromNullishOr(Pipe(String, <<nonEmptyString>>), Null)),
    Field("twitterHandle", Pipe(OptionFromNullishOr(Pipe(String, <<nonEmptyString>>), Null), <<startsWith(<<"@">>), maxLength(16)>>)),
    Field("githubHandle", Pipe(OptionFromNullishOr(Pipe(String, <<nonEmptyString>>), Null), <<maxLength(39)>>)),
    Field("createdAt", propertySignature(Pipe(String, <<nonEmptyString>>))) >>)


Post ==
  Class("Post", <<
    Field("id", propertySignature(Pipe(String, <<nonEmptyString>>))),
    Field("title", propertySignature(Pipe(String, <<nonEmptyString, nonEmptyString, minLength(1), maxLength(200)>>))),
    Field("slug", propertySignature(Pipe(String, <<nonEmptyString, nonEmptyString, maxLength(250), toLowerCase>>))),
    Field("content", propertySignature(Pipe(String, <<nonEmptyString, nonEmptyString>>))),
    Field("excerpt", Pipe(OptionFromNullishOr(Pipe(String, <<nonEmptyString>>), Null), <<maxLength(500)>>)),
    Field("author", propertySignature(annotations(Union(<<Pipe(String, <<nonEmptyString>>), Author>>), messageOverride))),
    Field("tags", propertySignature(Array(annotations(Union(<<Pipe(String, <<nonEmptyString>>), Tag>>), messageOverride)))),
    Field("featuredImage", OptionFromNullishOr(Pipe(String, <<nonEmptyString>>), Null)),
    Field("published", propertySignature(Boolean)),
    Field("publishedAt", OptionFromNullishOr(Pipe(String, <<nonEmptyString>>), Null)),
    Field("viewCount", propertySignature(Pipe(Number, <<nonNegative>>))),
    Field("createdAt", propertySignature(Pipe(String, <<nonEmptyString>>))),
    Field("updatedAt", propertySignature(Pipe(String, <<nonEmptyString>>))) >>)


EdgeCaseUser ==
  Class("EdgeCaseUser", <<
    Field("id", propertySignature(Pipe(String, <<nonEmptyString>>))),
    Field("email", propertySignature(Pipe(String, <<nonEmptyString, maxLength(255)>>))),
    Field("username", propertySignature(Pipe(String, <<nonEmptyString, minLength(3), maxLength(30)>>))),
    Field("createdAt", propertySignature(Pipe(String, <<nonEmptyString>>))),
    Field("loginCount", propertySignature(Pipe(Number, <<nonNegative>>))),
    Field("rating", Pipe(OptionFromNullishOr(Number, Null), <<between(0, 5)>>)) >>)


EdgeCasePost ==
  Class("EdgeCasePost", <<
    Field("id", propertySignature(Pipe(String, <<nonEmptyString>>))),
    Field("author", propertySignature(annotations(Union(<<Pipe(String, <<nonEmptyString>>), EdgeCaseUser>>), messageOverride))),
    Field("title", propertySignature(Pipe(String, <<nonEmptyString, nonEmptyString, minLength(5), maxLength(200)>>))),
    Field("content", propertySignature(Pipe(String, <<nonEmptyString, nonEmptyString, minLength(10)>>))),
    Field("slug", propertySignature(Pipe(String, <<nonEmptyString, toLowerCase, maxLength(100)>>))),
    Field("createdAt", propertySignature(Pipe(String, <<nonEmptyString>>))),
    Field("updatedAt", OptionFromNullishOr(Pipe(String, <<nonEmptyString>>), Null)),
    Field("viewCount", propertySignature(Pipe(Number, <<nonNegative>>))),
    Field("likeCount", propertySignature(Pipe(Number, <<nonNegative>>))),
    Field("isPublished", propertySignature(Boolean)),
    Field("featuredImage", OptionFromNullishOr(Pipe(String, <<nonEmptyString>>), Null)),
    Field("metaDescription", Pipe(OptionFromNullishOr(Pipe(String, <<nonEmptyString>>), Null), <<maxLength(300)>>)) >>)


EdgeCaseComment ==
  Class("EdgeCaseComment", <<
    Field("id", propertySignature(Pipe(String, <<nonEmptyString>>))),
    Field("post", propertySignature(annotations(Union(<<Pipe(String, <<nonEmptyString>>), EdgeCasePost>>), messageOverride))),
    Field("author", propertySignature(annotations(Union(<<Pipe(String, <<nonEmptyString>>), EdgeCaseUser>>), messageOverride))),
    Field("content", propertySignature(Pipe(String, <<nonEmptyString, nonEmptyString, minLength(1), maxLength(10000)>>))),
    Field("createdAt", propertySignature(Pipe(String, <<nonEmptyString>>))),
    Field("editedAt", OptionFromNullishOr(Pipe(String, <<nonEmptyString>>), Null)),
    Field("likeCount", propertySignature(Pipe(Number, <<nonNegative>>))),
    Field("parentCommentId", OptionFromNullishOr(Pipe(String, <<nonEmptyString>>), Null)),
    Field("isApproved", propertySignature(Boolean)),
    Field("authorIp", OptionFromNullishOr(Pipe(String, <<nonEmptyString>>), Null)) >>)


ValidatedAddress ==
  Class("ValidatedAddress", <<
    Field("street", propertySignature(Pipe(String, <<nonEmptyString, nonEmptyString, maxLength(200)>>))),
    Field("city", propertySignature(Pipe(String, <<nonEmptyString, nonEmptyString, maxLength(100)>>))),
    Field("stateCode", propertySignature(Pipe(String, <<nonEmptyString, toUpperCase, minLength(2), maxLength(3)>>))),
    Field("postalCode", propertySignature(Pipe(String, <<nonEmptyString, nonEmptyString, maxLength(20)>>))),
    Field("countryCode", propertySignature(Pipe(String, <<nonEmptyString, toUpperCase, minLength(2), maxLength(2)>>))),
    Field("latitude", Pipe(OptionFromNullishOr(Number, Null), <<between(-90, 90)>>)),
    Field("longitude", Pipe(OptionFromNullishOr(Number, Null), <<between(-180, 180)>>)) >>)


ArrayValidationExtremes ==
  Class("ArrayValidationExtremes", <<
    Field("id", propertySignature(Pipe(String, <<nonEmptyString>>))),
    Field("tags", propertySignature(Array(Pipe(String, <<nonEmptyString>>)))),
    Field("validatedEmails", propertySignature(Array(Pipe(String, <<nonEmptyString>>)))),
    Field("optionalTags", OptionFromNullishOr(Array(Pipe(String, <<nonEmptyString>>)), Null)),
    Field("scores", propertySignature(Array(Number))),
    Field("optionalScores", OptionFromNullishOr(Array(Number), Null)),
    Field("measurements", propertySignature(Array(Number))),
    Field("addresses", propertySignature(Array(ValidatedAddress))),
    Field("backupAddresses", OptionFromNullishOr(Array(ValidatedAddress), Null)) >>)


Comment ==
  Class("Comment", <<
    Field("id", propertySignature(Pipe(String, <<nonEmptyString>>))),
    Field("post", propertySignature(annotations(Union(<<Pipe(String, <<nonEmptyString>>), Post>>), messageOverride))),
    Field("author", propertySignature(annotations(Union(<<Pipe(String, <<nonEmptyString>>), Author>>), messageOverride))),
    Field("content", propertySignature(Pipe(String, <<nonEmptyString, nonEmptyString, minLength(1), maxLength(5000)>>))),
    Field("parentCommentId", OptionFromNullishOr(Pipe(String, <<nonEmptyString>>), Null)),
    Field("isApproved", propertySignature(Boolean)),
    Field("createdAt", propertySignature(Pipe(String, <<nonEmptyString>>))),
    Field("editedAt", OptionFromNullishOr(Pipe(String, <<nonEmptyString>>), Null)) >>)


CartItem ==
  Class("CartItem", <<
    Field("productId", propertySignature(Pipe(String, <<nonEmptyString, nonEmptyString>>))),
    Field("productName", propertySignature(Pipe(String, <<nonEmptyString, nonEmptyString, maxLength(200)>>))),
    Field("quantity", propertySignature(Pipe(Number, <<positive>>))),
    Field("unitPrice", propertySignature(Pipe(Number, <<positive>>))) >>)

\* OrderStatus with its first literal in lower case
OrderStatus_lowerPending ==
  Union(<<Literal(<<"p", "e", "n", "d", "i", "n", "g">>),
          Literal(<<"P", "r", "o", "c", "e", "s", "s", "i", "n", "g">>),
          Literal(<<"S", "h", "i", "p", "p", "e", "d">>),
          Literal(<<"D", "e", "l", "i", "v", "e", "r", "e", "d">>),
          Literal(<<"C", "a", "n", "c", "e", "l", "l", "e", "d">>)>>)


OrderStatus ==
  Union(<<Literal(<<"P", "e", "n", "d", "i", "n", "g">>),
          Literal(<<"P", "r", "o", "c", "e", "s", "s", "i", "n", "g">>),
          Literal(<<"S", "h", "i", "p", "p", "e", "d">>),
          Literal(<<"D", "e", "l", "i", "v", "e", "r", "e", "d">>),
          Literal(<<"C", "a", "n", "c", "e", "l", "l", "e", "d">>)>>)

\* Order with notes declared required
Order_notesRequired ==
  Class("Order", <<
    Field("id", propertySignature(Pipe(String, <<nonEmptyString>>))),
    Field("customer", propertySignature(annotations(Union(<<Pipe(String, <<nonEmptyString>>), Customer>>), messageOverride))),
    Field("items", propertySignature(Array(CartItem))),
    Field("subtotal", propertySignature(Pipe(Number, <<nonNegative>>))),
    Field("tax", propertySignature(Pipe(Number, <<nonNegative>>))),
    Field("shippingCost", propertySignature(Pipe(Number, <<nonNegative>>))),
    Field("total", propertySignature(Pipe(Number, <<positive>>))),
    Field("status", propertySignature(OrderStatus)),
    Field("shippingAddress", propertySignature(Address)),
    Field("notes", propertySignature(Pipe(String, <<nonEmptyString, maxLength(1000)>>))),
    Field("createdAt", propertySignature(Pipe(String, <<nonEmptyString>>))),
    Field("shippedAt", OptionFromNullishOr(Pipe(String, <<nonEmptyString>>), Null)),
    Field("deliveredAt", OptionFromNullishOr(Pipe(String, <<nonEmptyString>>), Null)) >>)


Order ==
  Class("Order", <<
    Field("id", propertySignature(Pipe(String, <<nonEmptyString>>))),
    Field("customer", propertySignature(annotations(Union(<<Pipe(String, <<nonEmptyString>>), Customer>>), messageOverride))),
    Field("items", propertySignature(Array(CartItem))),
    Field("subtotal", propertySignature(Pipe(Number, <<nonNegative>>))),
    Field("tax", propertySignature(Pipe(Number, <<nonNegative>>))),
    Field("shippingCost", propertySignature(Pipe(Number, <<nonNegative>>))),
    Field("total", propertySignature(Pipe(Number, <<positive>>))),
    Field("status", propertySignature(OrderStatus)),
    Field("shippingAddress", propertySignature(Address)),
    Field("notes", Pipe(OptionFromNullishOr(Pipe(String, <<nonEmptyString>>), Null), <<maxLength(1000)>>)),
    Field("createdAt", propertySignature(Pipe(String, <<nonEmptyString>>))),
    Field("shippedAt", OptionFromNullishOr(Pipe(String, <<nonEmptyString>>), Null)),
    Field("deliveredAt", OptionFromNullishOr(Pipe(String, <<nonEmptyString>>), Null)) >>)


PaymentStatus ==
  Union(<<Literal(<<"P", "e", "n", "d", "i", "n", "g">>),
          Literal(<<"P", "r", "o", "c", "e", "s", "s", "i", "n", "g">>),
          Literal(<<"C", "o", "m", "p", "l", "e", "t", "e", "d">>),
          Literal(<<"F", "a", "i", "l", "e", "d">>),
          Literal(<<"R", "e", "f", "u", "n", "d", "e", "d">>),
          Literal(<<"C", "a", "n", "c", "e", "l", "l", "e", "d">>)>>)

\* PaymentMethod without the literal "Cash"
PaymentMethod_noCash ==
  Union(<<Literal(<<"C", "r", "e", "d", "i", "t", "C", "a", "r", "d">>),
          Literal(<<"D", "e", "b", "i", "t", "C", "a", "r", "d">>),
          Literal(<<"B", "a", "n", "k", "T", "r", "a", "n", "s", "f", "e", "r">>),
          Literal(<<"P", "a", "y", "P", "a", "l">>),
          Literal(<<"C", "r", "y", "p", "t", "o">>)>>)


PaymentMethod ==
  Union(<<Literal(<<"C", "r", "e", "d", "i", "t", "C", "a", "r", "d">>),
          Literal(<<"D", "e", "b", "i", "t", "C", "a", "r", "d">>),
          Literal(<<"B", "a", "n", "k", "T", "r", "a", "n", "s", "f", "e", "r">>),
          Literal(<<"P", "a", "y", "P", "a", "l">>),
          Literal(<<"C", "r", "y", "p", "t", "o">>),
          Literal(<<"C", "a", "s", "h">>)>>)


ComplexPayment ==
  Class("ComplexPayment", <<
    Field("id", propertySignature(Pipe(String, <<nonEmptyString>>))),
    Field("user", propertySignature(annotations(Union(<<Pipe(String, <<nonEmptyString>>), EdgeCaseUser>>), messageOverride))),
    Field("status", propertySignature(PaymentStatus)),
    Field("method", propertySignature(PaymentMethod)),
    Field("amount", propertySignature(Pipe(Number, <<positive, lessThan(1000000)>>))),
    Field("currency", propertySignature(Pipe(String, <<nonEmptyString, toUpperCase, minLength(3), maxLength(3)>>))),
    Field("fee", propertySignature(Pipe(Number, <<nonNegative>>))),
    Field("tax", propertySignature(Pipe(Number, <<nonNegative>>))),
    Field("total", propertySignature(Pipe(Number, <<positive>>))),
    Field("transactionId", propertySignature(Pipe(String, <<nonEmptyString, minLength(32)>>))),
    Field("referenceCode", OptionFromNullishOr(Pipe(String, <<nonEmptyString>>), Null)),
    Field("createdAt", propertySignature(Pipe(String, <<nonEmptyString>>))),
    Field("processedAt", OptionFromNullishOr(Pipe(String, <<nonEmptyString>>), Null)),
    Field("completedAt", OptionFromNullishOr(Pipe(String, <<nonEmptyString>>), Null)),
    Field("billingAddress", propertySignature(ValidatedAddress)),
    Field("notes", Pipe(OptionFromNullishOr(Pipe(String, <<nonEmptyString>>), Null), <<maxLength(1000)>>)),
    Field("retryCount", propertySignature(Pipe(Number, <<nonNegative>>))),
    Field("failureReason", Pipe(OptionFromNullishOr(Pipe(String, <<nonEmptyString>>), Null), <<maxLength(500)>>)) >>)


Session ==
  Class("Session", <<
    Field("id", propertySignature(Pipe(String, <<nonEmptyString>>))),
    Field("user", propertySignature(annotations(Union(<<Pipe(String, <<nonEmptyString>>), User>>), messageOverride))),
    Field("token", propertySignature(Pipe(String, <<nonEmptyString, nonEmptyString, minLength(32)>>))),
    Field("expiresAt", propertySignature(Pipe(String, <<nonEmptyString>>))),
    Field("createdAt", propertySignature(Pipe(String, <<nonEmptyString>>))) >>)

\* InnerValidated with an id field like the persisted entities
InnerValidated_withId ==
  Class("InnerValidated", <<
    Field("id", propertySignature(Pipe(String, <<nonEmptyString>>))),
    Field("name", propertySignature(Pipe(String, <<nonEmptyString, nonEmptyString, maxLength(100)>>))),
    Field("count", propertySignature(Pipe(Number, <<positive>>))),
    Field("optionalEmail", OptionFromNullishOr(Pipe(String, <<nonEmptyString>>), Null)) >>)


InnerValidated ==
  Class("InnerValidated", <<
    Field("name", propertySignature(Pipe(String, <<nonEmptyString, nonEmptyString, maxLength(100)>>))),
    Field("count", propertySignature(Pipe(Number, <<positive>>))),
    Field("optionalEmail", OptionFromNullishOr(Pipe(String, <<nonEmptyString>>), Null)) >>)


OuterWithNestedValidator ==
  Class("OuterWithNestedValidator", <<
    Field("id", propertySignature(Pipe(String, <<nonEmptyString>>))),
    Field("inner", propertySignature(InnerValidated)),
    Field("optionalInner", OptionFromNullishOr(InnerValidated, Null)),
    Field("innerList", propertySignature(Array(InnerValidated))) >>)


ProductCategory ==
  Union(<<Literal(<<"E", "l", "e", "c", "t", "r", "o", "n", "i", "c", "s">>),
          Literal(<<"C", "l", "o", "t", "h", "i", "n", "g">>),
          Literal(<<"B", "o", "o", "k", "s">>),
          Literal(<<"H", "o", "m", "e">>),
          Literal(<<"S", "p", "o", "r", "t", "s">>),
          Literal(<<"O", "t", "h", "e", "r">>)>>)


Product ==
  Class("Product", <<
    Field("id", propertySignature(Pipe(String, <<nonEmptyString>>))),
    Field("name", propertySignature(Pipe(String, <<nonEmptyString, nonEmptyString, maxLength(200)>>))),
    Field("description", propertySignature(Pipe(String, <<nonEmptyString, maxLength(5000)>>))),
    Field("price", propertySignature(Pipe(Number, <<positive>>))),
    Field("stockQuantity", propertySignature(Pipe(Number, <<nonNegative>>))),
    Field("category", propertySignature(ProductCategory)),
    Field("imageUrl", OptionFromNullishOr(Pipe(String, <<nonEmptyString>>), Null)),
    Field("isAvailable", propertySignature(Boolean)),
    Field("createdAt", propertySignature(Pipe(String, <<nonEmptyString>>))) >>)


ValidatedContact ==
  Class("ValidatedContact", <<
    Field("name", propertySignature(Pipe(String, <<nonEmptyString, nonEmptyString, maxLength(100)>>))),
    Field("email", propertySignature(Pipe(String, <<nonEmptyString>>))),
    Field("phone", Pipe(OptionFromNullishOr(Pipe(String, <<nonEmptyString>>), Null), <<maxLength(20)>>)),
    Field("title", Pipe(OptionFromNullishOr(Pipe(String, <<nonEmptyString>>), Null), <<maxLength(100)>>)) >>)


DeepNestedValidation ==
  Class("DeepNestedValidation", <<
    Field("id", propertySignature(Pipe(String, <<nonEmptyString>>))),
    Field("name", propertySignature(Pipe(String, <<nonEmptyString, nonEmptyString, maxLength(200)>>))),
    Field("primaryAddress", propertySignature(ValidatedAddress)),
    Field("billingAddress", OptionFromNullishOr(ValidatedAddress, Null)),
    Field("shippingAddresses", propertySignature(Array(ValidatedAddress))),
    Field("primaryContact", propertySignature(ValidatedContact)),
    Field("secondaryContact", OptionFromNullishOr(ValidatedContact, Null)),
    Field("additionalContacts", propertySignature(Array(ValidatedContact))),
    Field("totalOrders", propertySignature(Pipe(Number, <<nonNegative>>))),
    Field("totalSpent", propertySignature(Pipe(Number, <<nonNegative>>))),
    Field("creditLimit", Pipe(OptionFromNullishOr(Number, Null), <<positive>>)) >>)

\* the exported schemas of bindings.ts, in source order
\* the exports with Customer declared before User, which it references
Schemas_customerBeforeUser ==
  <<Export("Address", Address),
    Export("Role", Role),
    Export("Customer", Customer),
    Export("User", User),
    Export("Tag", Tag),
    Export("Author", Author),
    Export("Post", Post),
    Export("EdgeCaseUser", EdgeCaseUser),
    Export("EdgeCasePost", EdgeCasePost),
    Export("EdgeCaseComment", EdgeCaseComment),
    Export("ValidatedAddress", ValidatedAddress),
    Export("ArrayValidationExtremes", ArrayValidationExtremes),
    Export("Comment", Comment),
    Export("CartItem", CartItem),
    Export("OrderStatus", OrderStatus),
    Export("Order", Order),
    Export("PaymentStatus", PaymentStatus),
    Export("PaymentMethod", PaymentMethod),
    Export("ComplexPayment", ComplexPayment),
    Export("Session", Session),
    Export("InnerValidated", InnerValidated),
    Export("OuterWithNestedValidator", OuterWithNestedValidator),
    Export("ProductCategory", ProductCategory),
    Export("Product", Product),
    Export("ValidatedContact", ValidatedContact),
    Export("DeepNestedValidation", DeepNestedValidation)>>


Schemas ==
  <<Export("Address", Address),
    Export("Role", Role),
    Export("User", User),
    Export("Customer", Customer),
    Export("Tag", Tag),
    Export("Author", Author),
    Export("Post", Post),
    Export("EdgeCaseUser", EdgeCaseUser),
    Export("EdgeCasePost", EdgeCasePost),
    Export("EdgeCaseComment", EdgeCaseComment),
    Export("ValidatedAddress", ValidatedAddress),
    Export("ArrayValidationExtremes", ArrayValidationExtremes),
    Export("Comment", Comment),
    Export("CartItem", CartItem),
    Export("OrderStatus", OrderStatus),
    Export("Order", Order),
    Export("PaymentStatus", PaymentStatus),
    Export("PaymentMethod", PaymentMethod),
    Export("ComplexPayment", ComplexPayment),
    Export("Session", Session),
    Export("InnerValidated", InnerValidated),
    Export("OuterWithNestedValidator", OuterWithNestedValidator),
    Export("ProductCategory", ProductCategory),
    Export("Product", Product),
    Export("ValidatedContact", ValidatedContact),
    Export("DeepNestedValidation", DeepNestedValidation)>>

\* ---- bindings.ts: the plain (encoded) shapes, in source order
\* CustomerEncoded with user typed by the schema class instead of its plain shape
CustomerEncoded_userClass ==
  Interface("CustomerEncoded", 296, <<
      F("id", Kw("string")),
      F("user", Or(Kw("string"), Kw("User"))),
      F("shippingAddress", Or(Or(Kw("AddressEncoded"), Kw("null")), Kw("undefined"))),
      F("billingAddress", Or(Or(Kw("AddressEncoded"), Kw("null")), Kw("undefined"))),
      F("phone", Or(Or(Kw("string"), Kw("null")), Kw("undefined"))),
      F("createdAt", Kw("string")) >>)


CustomerEncoded ==
  Interface("CustomerEncoded", 296, <<
      F("id", Kw("string")),
      F("user", Or(Kw("string"), Kw("UserEncoded"))),
      F("shippingAddress", Or(Or(Kw("AddressEncoded"), Kw("null")), Kw("undefined"))),
      F("billingAddress", Or(Or(Kw("AddressEncoded"), Kw("null")), Kw("undefined"))),
      F("phone", Or(Or(Kw("string"), Kw("null")), Kw("undefined"))),
      F("createdAt", Kw("string")) >>)

\* PostEncoded with excerpt typed as a required string
PostEncoded_excerptRequired ==
  Interface("PostEncoded", 323, <<
      F("id", Kw("string")),
      F("title", Kw("string")),
      F("slug", Kw("string")),
      F("content", Kw("string")),
      F("excerpt", Kw("string")),
      F("author", Or(Kw("string"), Kw("AuthorEncoded"))),
      F("tags", ArrOf(Or(Kw("string"), Kw("TagEncoded")))),
      F("featuredImage", Or(Or(Kw("string"), Kw("null")), Kw("undefined"))),
      F("published", Kw("boolean")),
      F("publishedAt", Or(Or(Kw("string"), Kw("null")), Kw("undefined"))),
      F("viewCount", Kw("number")),
      F("createdAt", Kw("string")),
      F("updatedAt", Kw("string")) >>)


PostEncoded ==
  Interface("PostEncoded", 323, <<
      F("id", Kw("string")),
      F("title", Kw("string")),
      F("slug", Kw("string")),
      F("content", Kw("string")),
      F("excerpt", Or(Or(Kw("string"), Kw("null")), Kw("undefined"))),
      F("author", Or(Kw("string"), Kw("AuthorEncoded"))),
      F("tags", ArrOf(Or(Kw("string"), Kw("TagEncoded")))),
      F("featuredImage", Or(Or(Kw("string"), Kw("null")), Kw("undefined"))),
      F("published", Kw("boolean")),
      F("publishedAt", Or(Or(Kw("string"), Kw("null")), Kw("undefined"))),
      F("viewCount", Kw("number")),
      F("createdAt", Kw("string")),
      F("updatedAt", Kw("string")) >>)

EncodedShapes ==
  <<
    Interface("AddressEncoded", 275, <<
      F("street", Kw("string")),
      F("city", Kw("string")),
      F("state", Kw("string")),
      F("postalCode", Kw("string")),
      F("country", Kw("string")) >>),
    TypeAlias("RoleEncoded", 283,
      Or(Or(Or(Eq(<<"A", "d", "m", "i", "n">>), Eq(<<"M", "o", "d", "e", "r", "a", "t", "o", "r">>)), Eq(<<"U", "s", "e", "r">>)), Eq(<<"G", "u", "e", "s", "t">>))),
    Interface("UserEncoded", 285, <<
      F("id", Kw("string")),
      F("email", Kw("string")),
      F("username", Kw("string")),
      F("passwordHash", Kw("string")),
      F("roles", ArrOf(Kw("RoleEncoded"))),
      F("isActive", Kw("boolean")),
      F("createdAt", Kw("string")),
      F("updatedAt", Kw("string")) >>),
    CustomerEncoded,
    Interface("TagEncoded", 305, <<
      F("id", Kw("string")),
      F("name", Kw("string")),
      F("slug", Kw("string")),
      F("description", Or(Or(Kw("string"), Kw("null")), Kw("undefined"))),
      F("postCount", Kw("number")) >>),
    Interface("AuthorEncoded", 313, <<
      F("id", Kw("string")),
      F("user", Or(Kw("string"), Kw("UserEncoded"))),
      F("bio", Or(Or(Kw("string"), Kw("null")), Kw("undefined"))),
      F("avatarUrl", Or(Or(Kw("string"), Kw("null")), Kw("undefined"))),
      F("twitterHandle", Or(Or(Kw("string"), Kw("null")), Kw("undefined"))),
      F("githubHandle", Or(Or(Kw("string"), Kw("null")), Kw("undefined"))),
      F("createdAt", Kw("string")) >>),
    PostEncoded,
    Interface("EdgeCaseUserEncoded", 339, <<
      F("id", Kw("string")),
      F("email", Kw("string")),
      F("username", Kw("string")),
      F("createdAt", Kw("string")),
      F("loginCount", Kw("number")),
      F("rating", Or(Or(Kw("number"), Kw("null")), Kw("undefined"))) >>),
    Interface("EdgeCasePostEncoded", 348, <<
      F("id", Kw("string")),
      F("author", Or(Kw("string"), Kw("EdgeCaseUserEncoded"))),
      F("title", Kw("string")),
      F("content", Kw("string")),
      F("slug", Kw("string")),
      F("createdAt", Kw("string")),
      F("updatedAt", Or(Or(Kw("string"), Kw("null")), Kw("undefined"))),
      F("viewCount", Kw("number")),
      F("likeCount", Kw("number")),
      F("isPublished", Kw("boolean")),
      F("featuredImage", Or(Or(Kw("string"), Kw("null")), Kw("undefined"))),
      F("metaDescription", Or(Or(Kw("string"), Kw("null")), Kw("undefined"))) >>),
    Interface("EdgeCaseCommentEncoded", 363, <<
      F("id", Kw("string")),
      F("post", Or(Kw("string"), Kw("EdgeCasePostEncoded"))),
      F("author", Or(Kw("string"), Kw("EdgeCaseUserEncoded"))),
      F("content", Kw("string")),
      F("createdAt", Kw("string")),
      F("editedAt", Or(Or(Kw("string"), Kw("null")), Kw("undefined"))),
      F("likeCount", Kw("number")),
      F("parentCommentId", Or(Or(Kw("string"), Kw("null")), Kw("undefined"))),
      F("isApproved", Kw("boolean")),
      F("authorIp", Or(Or(Kw("string"), Kw("null")), Kw("undefined"))) >>),
    Interface("ValidatedAddressEncoded", 376, <<
      F("street", Kw("string")),
      F("city", Kw("string")),
      F("stateCode", Kw("string")),
      F("postalCode", Kw("string")),
      F("countryCode", Kw("string")),
      F("latitude", Or(Or(Kw("number"), Kw("null")), Kw("undefined"))),
      F("longitude", Or(Or(Kw("number"), Kw("null")), Kw("undefined"))) >>),
    Interface("ArrayValidationExtremesEncoded", 386, <<
      F("id", Kw("string")),
      F("tags", ArrOf(Kw("string"))),
      F("validatedEmails", ArrOf(Kw("string"))),
      F("optionalTags", Or(Or(ArrOf(Kw("string")), Kw("null")), Kw("undefined"))),
      F("scores", ArrOf(Kw("number"))),
      F("optionalScores", Or(Or(ArrOf(Kw("number")), Kw("null")), Kw("undefined"))),
      F("measurements", ArrOf(Kw("number"))),
      F("addresses", ArrOf(Kw("ValidatedAddressEncoded"))),
      F("backupAddresses", Or(Or(ArrOf(Kw("ValidatedAddressEncoded")), Kw("null")), Kw("undefined"))) >>),
    Interface("CommentEncoded", 398, <<
      F("id", Kw("string")),
      F("post", Or(Kw("string"), Kw("PostEncoded"))),
      F("author", Or(Kw("string"), Kw("AuthorEncoded"))),
      F("content", Kw("string")),
      F("parentCommentId", Or(Or(Kw("string"), Kw("null")), Kw("undefined"))),
      F("isApproved", Kw("boolean")),
      F("createdAt", Kw("string")),
      F("editedAt", Or(Or(Kw("string"), Kw("null")), Kw("undefined"))) >>),
    Interface("CartItemEncoded", 409, <<
      F("productId", Kw("string")),
      F("productName", Kw("string")),
      F("quantity", Kw("number")),
      F("unitPrice", Kw("number")) >>),
    TypeAlias("OrderStatusEncoded", 416,
      Or(Or(Or(Or(Eq(<<"P", "e", "n", "d", "i", "n", "g">>), Eq(<<"P", "r", "o", "c", "e", "s", "s", "i", "n", "g">>)), Eq(<<"S", "h", "i", "p", "p", "e", "d">>)), Eq(<<"D", "e", "l", "i", "v", "e", "r", "e", "d">>)), Eq(<<"C", "a", "n", "c", "e", "l", "l", "e", "d">>))),
    Interface("OrderEncoded", 418, <<
      F("id", Kw("string")),
      F("customer", Or(Kw("string"), Kw("CustomerEncoded"))),
      F("items", ArrOf(Kw("CartItemEncoded"))),
      F("subtotal", Kw("number")),
      F("tax", Kw("number")),
      F("shippingCost", Kw("number")),
      F("total", Kw("number")),
      F("status", Kw("OrderStatusEncoded")),
      F("shippingAddress", Kw("AddressEncoded")),
      F("notes", Or(Or(Kw("string"), Kw("null")), Kw("undefined"))),
      F("createdAt", Kw("string")),
      F("shippedAt", Or(Or(Kw("string"), Kw("null")), Kw("undefined"))),
      F("deliveredAt", Or(Or(Kw("string"), Kw("null")), Kw("undefined"))) >>),
    TypeAlias("PaymentStatusEncoded", 434,
      Or(Or(Or(Or(Or(Eq(<<"P", "e", "n", "d", "i", "n", "g">>), Eq(<<"P", "r", "o", "c", "e", "s", "s", "i", "n", "g">>)), Eq(<<"C", "o", "m", "p", "l", "e", "t", "e", "d">>)), Eq(<<"F", "a", "i", "l", "e", "d">>)), Eq(<<"R", "e", "f", "u", "n", "d", "e", "d">>)), Eq(<<"C", "a", "n", "c", "e", "l", "l", "e", "d">>))),
    TypeAlias("PaymentMethodEncoded", 436,
      Or(Or(Or(Or(Or(Eq(<<"C", "r", "e", "d", "i", "t", "C", "a", "r", "d">>), Eq(<<"D", "e", "b", "i", "t", "C", "a", "r", "d">>)), Eq(<<"B", "a", "n", "k", "T", "r", "a", "n", "s", "f", "e", "r">>)), Eq(<<"P", "a", "y", "P", "a", "l">>)), Eq(<<"C", "r", "y", "p", "t", "o">>)), Eq(<<"C", "a", "s", "h">>))),
    Interface("ComplexPaymentEncoded", 438, <<
      F("id", Kw("string")),
      F("user", Or(Kw("string"), Kw("EdgeCaseUserEncoded"))),
      F("status", Kw("PaymentStatusEncoded")),
      F("method", Kw("PaymentMethodEncoded")),
      F("amount", Kw("number")),
      F("currency", Kw("string")),
      F("fee", Kw("number")),
      F("tax", Kw("number")),
      F("total", Kw("number")),
      F("transactionId", Kw("string")),
      F("referenceCode", Or(Or(Kw("string"), Kw("null")), Kw("undefined"))),
      F("createdAt", Kw("string")),
      F("processedAt", Or(Or(Kw("string"), Kw("null")), Kw("undefined"))),
      F("completedAt", Or(Or(Kw("string"), Kw("null")), Kw("undefined"))),
      F("billingAddress", Kw("ValidatedAddressEncoded")),
      F("notes", Or(Or(Kw("string"), Kw("null")), Kw("undefined"))),
      F("retryCount", Kw("number")),
      F("failureReason", Or(Or(Kw("string"), Kw("null")), Kw("undefined"))) >>),
    Interface("SessionEncoded", 459, <<
      F("id", Kw("string")),
      F("user", Or(Kw("string"), Kw("UserEncoded"))),
      F("token", Kw("string")),
      F("expiresAt", Kw("string")),
      F("createdAt", Kw("string")) >>),
    Interface("InnerValidatedEncoded", 467, <<
      F("name", Kw("string")),
      F("count", Kw("number")),
      F("optionalEmail", Or(Or(Kw("string"), Kw("null")), Kw("undefined"))) >>),
    Interface("OuterWithNestedValidatorEncoded", 473, <<
      F("id", Kw("string")),
      F("inner", Kw("InnerValidatedEncoded")),
      F("optionalInner", Or(Or(Kw("InnerValidatedEncoded"), Kw("null")), Kw("undefined"))),
      F("innerList", ArrOf(Kw("InnerValidatedEncoded"))) >>),
    TypeAlias("ProductCategoryEncoded", 480,
      Or(Or(Or(Or(Or(Eq(<<"E", "l", "e", "c", "t", "r", "o", "n", "i", "c", "s">>), Eq(<<"C", "l", "o", "t", "h", "i", "n", "g">>)), Eq(<<"B", "o", "o", "k", "s">>)), Eq(<<"H", "o", "m", "e">>)), Eq(<<"S", "p", "o", "r", "t", "s">>)), Eq(<<"O", "t", "h", "e", "r">>))),
    Interface("ProductEncoded", 482, <<
      F("id", Kw("string")),
      F("name", Kw("string")),
      F("description", Kw("string")),
      F("price", Kw("number")),
      F("stockQuantity", Kw("number")),
      F("category", Kw("ProductCategoryEncoded")),
      F("imageUrl", Or(Or(Kw("string"), Kw("null")), Kw("undefined"))),
      F("isAvailable", Kw("boolean")),
      F("createdAt", Kw("string")) >>),
    Interface("ValidatedContactEncoded", 494, <<
      F("name", Kw("string")),
      F("email", Kw("string")),
      F("phone", Or(Or(Kw("string"), Kw("null")), Kw("undefined"))),
      F("title", Or(Or(Kw("string"), Kw("null")), Kw("undefined"))) >>),
    Interface("DeepNestedValidationEncoded", 501, <<
      F("id", Kw("string")),
      F("name", Kw("string")),
      F("primaryAddress", Kw("ValidatedAddressEncoded")),
      F("billingAddress", Or(Or(Kw("ValidatedAddressEncoded"), Kw("null")), Kw("undefined"))),
      F("shippingAddresses", ArrOf(Kw("ValidatedAddressEncoded"))),
      F("primaryContact", Kw("ValidatedContactEncoded")),
      F("secondaryContact", Or(Or(Kw("ValidatedContactEncoded"), Kw("null")), Kw("undefined"))),
      F("additionalContacts", ArrOf(Kw("ValidatedContactEncoded"))),
      F("totalOrders", Kw("number")),
      F("totalSpent", Kw("number")),
      F("creditLimit", Or(Or(Kw("number"), Kw("null")), Kw("undefined"))) >>)
  >>

\* ---- String.prototype.toUpperCase / toLowerCase, as the transformations apply them
LowerLetters ==
  <<"a", "b", "c", "d", "e", "f", "g", "h", "i", "j", "k", "l", "m",
    "n", "o", "p", "q", "r", "s", "t", "u", "v", "w", "x", "y", "z">>
UpperLetters ==
  <<"A", "B", "C", "D", "E", "F", "G", "H", "I", "J", "K", "L", "M",
    "N", "O", "P", "Q", "R", "S", "T", "U", "V", "W", "X", "Y", "Z">>

IndexIn(seq, c) == CHOOSE i \in DOMAIN seq : seq[i] = c

\* the full case mapping of one character: sharp s has no single upper-case
\* character and maps to "SS"; dotted capital I maps to "i" + combining dot
UpperOfChar(c) ==
  IF c \in Range(LowerLetters) THEN <<UpperLetters[IndexIn(LowerLetters, c)]>>
  ELSE IF c = "U+00DF" THEN <<"S", "S">>
  ELSE <<c>>

LowerOfChar(c) ==
  IF c \in Range(UpperLetters) THEN <<LowerLetters[IndexIn(UpperLetters, c)]>>
  ELSE IF c = "U+0130" THEN <<"i", "U+0307">>
  ELSE <<c>>

RECURSIVE UpperOf(_)
UpperOf(s) ==
  IF Len(s) = 0 THEN <<>>
  ELSE IF Len(s) = 1 THEN UpperOfChar(s[1])
  ELSE LET h == Len(s) \div 2
       IN UpperOf(SubSeq(s, 1, h)) \o UpperOf(SubSeq(s, h + 1, Len(s)))

RECURSIVE LowerOf(_)
LowerOf(s) ==
  IF Len(s) = 0 THEN <<>>
  ELSE IF Len(s) = 1 THEN LowerOfChar(s[1])
  ELSE LET h == Len(s) \div 2
       IN LowerOf(SubSeq(s, 1, h)) \o LowerOf(SubSeq(s, h + 1, Len(s)))

\* ---- decoding (validation) of a plain value through a schema
\* decoded values: plain values, and for an OptionFromNullishOr field an Option
None == [t |-> "none"]
Some(x) == [t |-> "some", x |-> x]

\* an issue: where (the path of field names and array indices), which kind
\* ("Missing", "Type", "Refinement", "Union") and which rule or expected type
Issue(path, tag, what) == [path |-> path, tag |-> tag, what |-> what]
Ok(v) == [ok |-> TRUE, out |-> v, issues |-> {}]
Fail(issues) == [ok |-> FALSE, out |-> Undefined, issues |-> issues]
NoResult == [ok |-> FALSE, out |-> Undefined, issues |-> {}]
Under(name, issues) == {Issue(<<name>> \o i.path, i.tag, i.what) : i \in issues}

\* the predicate of a refinement on the value it is given. The predicates read
\* a.length or compare a with a number; on a value that is neither a string nor a
\* number (an Option) the length is undefined and every comparison is false
\* (startsWith is not a function of it: the call throws, nothing is accepted)
Holds(op, a) ==
  CASE op.op = "nonEmptyString" -> a.t = "string" /\ Len(a.s) > 0
    [] op.op = "minLength" -> a.t = "string" /\ Len(a.s) >= op.n
    [] op.op = "maxLength" -> a.t = "string" /\ Len(a.s) <= op.n
    [] op.op = "startsWith" ->
         a.t = "string" /\ Len(a.s) >= Len(op.p) /\ SubSeq(a.s, 1, Len(op.p)) = op.p
    [] op.op = "between" -> a.t = "number" /\ a.n >= op.lo /\ a.n <= op.hi
    [] op.op = "positive" -> a.t = "number" /\ a.n > 0
    [] op.op = "nonNegative" -> a.t = "number" /\ a.n >= 0
    [] op.op = "lessThan" -> a.t = "number" /\ a.n < op.n

ApplyOp(op, a) ==
  IF op.op \in {"toUpperCase", "toLowerCase"}
  THEN IF a.t # "string" THEN Fail({Issue(<<>>, "Type", "string")})
       ELSE IF op.op = "toUpperCase" THEN Ok(Str(UpperOf(a.s)))
       ELSE Ok(Str(LowerOf(a.s)))
  ELSE IF Holds(op, a) THEN Ok(a)
  ELSE Fail({Issue(<<>>, "Refinement", op.op)})

\* the pipe runs in order and stops at the first rule that fails
RECURSIVE RunOps(_, _, _)
RunOps(ops, i, a) ==
  IF i > Len(ops) THEN Ok(a)
  ELSE LET r == ApplyOp(ops[i], a)
       IN IF r.ok THEN RunOps(ops, i + 1, r.out) ELSE r

Min(S) == CHOOSE x \in S : \A y \in S : x <= y

\* Decode gives the outcome and every issue of the value (the issue tree under
\* the parse option errors: "all", before messages are formatted), each with the
\* path of the field it lies at; a union that no member accepts has the issues
\* of all its members
RECURSIVE Decode(_, _)
RECURSIVE DecodeField(_, _)

\* DecodeField with an absent required field decoded as the value undefined
DecodeField_absentAsUndefined(f, o) ==
  Decode(IF f.sig.k = "propertySignature" THEN f.sig.schema ELSE f.sig,
         IF f.name \in DOMAIN o THEN o[f.name] ELSE Undefined)

DecodeField(f, o) ==
  IF f.sig.k = "propertySignature"
  THEN IF f.name \notin DOMAIN o
       THEN Fail({Issue(<<>>, "Missing", "required")})
       ELSE Decode(f.sig.schema, o[f.name])
  ELSE Decode(f.sig, IF f.name \in DOMAIN o THEN o[f.name] ELSE Undefined)

\* Decode with the rules of a pipe run on a value that failed the check before them
Decode_rulesBeforeType(S, v) ==
  CASE S.k = "String" ->
         IF v.t = "string" THEN Ok(v) ELSE Fail({Issue(<<>>, "Type", "string")})
    [] S.k = "Number" ->
         IF v.t = "number" THEN Ok(v) ELSE Fail({Issue(<<>>, "Type", "number")})
    [] S.k = "Boolean" ->
         IF v.t = "boolean" THEN Ok(v) ELSE Fail({Issue(<<>>, "Type", "boolean")})
    [] S.k = "Literal" ->
         IF v = Str(S.lit) THEN Ok(v) ELSE Fail({Issue(<<>>, "Type", "literal")})
    [] S.k = "Pipe" ->
         LET r == Decode(S.from, v)
         IN IF r.ok THEN RunOps(S.ops, 1, r.out)
            ELSE Fail(r.issues \cup RunOps(S.ops, 1, v).issues)
    [] S.k = "Union" ->
         LET oks == {i \in DOMAIN S.members : Decode(S.members[i], v).ok}
         IN IF oks = {} THEN Fail(UNION {Decode(S.members[i], v).issues : i \in DOMAIN S.members})
            ELSE Decode(S.members[Min(oks)], v)
    [] S.k = "Array" ->
         IF v.t # "array" THEN Fail({Issue(<<>>, "Type", "array")})
         ELSE LET rs == [i \in DOMAIN v.a |-> Decode(S.item, v.a[i])]
              IN IF \A i \in DOMAIN rs : rs[i].ok
                 THEN Ok(Arr([i \in DOMAIN rs |-> rs[i].out]))
                 ELSE Fail(UNION {Under(ToString(i), rs[i].issues) : i \in DOMAIN rs})
    [] S.k = "OptionFromNullishOr" ->
         IF v.t \in {"null", "undefined"} THEN Ok(None)
         ELSE LET r == Decode(S.value, v)
              IN IF r.ok THEN Ok(Some(r.out)) ELSE r
    [] S.k = "Class" ->
         IF v.t # "object" THEN Fail({Issue(<<>>, "Type", "object")})
         ELSE LET rs == [i \in DOMAIN S.fields |-> DecodeField(S.fields[i], v.o)]
                  names == {S.fields[i].name : i \in DOMAIN S.fields}
                  at(n) == CHOOSE i \in DOMAIN S.fields : S.fields[i].name = n
              IN IF \A i \in DOMAIN rs : rs[i].ok
                 THEN Ok(Obj([n \in names |-> rs[at(n)].out]))
                 ELSE Fail(UNION {Under(S.fields[i].name, rs[i].issues) : i \in DOMAIN rs})

Decode(S, v) ==
  CASE S.k = "String" ->
         IF v.t = "string" THEN Ok(v) ELSE Fail({Issue(<<>>, "Type", "string")})
    [] S.k = "Number" ->
         IF v.t = "number" THEN Ok(v) ELSE Fail({Issue(<<>>, "Type", "number")})
    [] S.k = "Boolean" ->
         IF v.t = "boolean" THEN Ok(v) ELSE Fail({Issue(<<>>, "Type", "boolean")})
    [] S.k = "Literal" ->
         IF v = Str(S.lit) THEN Ok(v) ELSE Fail({Issue(<<>>, "Type", "literal")})
    [] S.k = "Pipe" ->
         LET r == Decode(S.from, v)
         IN IF r.ok THEN RunOps(S.ops, 1, r.out) ELSE r
    [] S.k = "Union" ->
         LET oks == {i \in DOMAIN S.members : Decode(S.members[i], v).ok}
         IN IF oks = {} THEN Fail(UNION {Decode(S.members[i], v).issues : i \in DOMAIN S.members})
            ELSE Decode(S.members[Min(oks)], v)
    [] S.k = "Array" ->
         IF v.t # "array" THEN Fail({Issue(<<>>, "Type", "array")})
         ELSE LET rs == [i \in DOMAIN v.a |-> Decode(S.item, v.a[i])]
              IN IF \A i \in DOMAIN rs : rs[i].ok
                 THEN Ok(Arr([i \in DOMAIN rs |-> rs[i].out]))
                 ELSE Fail(UNION {Under(ToString(i), rs[i].issues) : i \in DOMAIN rs})
    [] S.k = "OptionFromNullishOr" ->
         IF v.t \in {"null", "undefined"} THEN Ok(None)
         ELSE LET r == Decode(S.value, v)
              IN IF r.ok THEN Ok(Some(r.out)) ELSE r
    [] S.k = "Class" ->
         IF v.t # "object" THEN Fail({Issue(<<>>, "Type", "object")})
         ELSE LET rs == [i \in DOMAIN S.fields |-> DecodeField(S.fields[i], v.o)]
                  names == {S.fields[i].name : i \in DOMAIN S.fields}
                  at(n) == CHOOSE i \in DOMAIN S.fields : S.fields[i].name = n
              IN IF \A i \in DOMAIN rs : rs[i].ok
                 THEN Ok(Obj([n \in names |-> rs[at(n)].out]))
                 ELSE Fail(UNION {Under(S.fields[i].name, rs[i].issues) : i \in DOMAIN rs})

\* ---- the errors a caller is given for a rejected value
\* Under the parse option errors: "first" (the default) a record stops at its
\* first failing field in declaration order and an array at its first failing
\* element; under "all" every failing field is reported. A union annotated with
\* { message, override: true } is reported as one error with that message at the
\* union's own path, whatever lies inside.
RECURSIVE Report(_, _, _)
RECURSIVE ReportField(_, _, _)

ReportField(f, o, opt) ==
  IF f.sig.k = "propertySignature"
  THEN IF f.name \notin DOMAIN o
       THEN {Issue(<<>>, "Missing", "required")}
       ELSE Report(f.sig.schema, o[f.name], opt)
  ELSE Report(f.sig, IF f.name \in DOMAIN o THEN o[f.name] ELSE Undefined, opt)

Report(S, v, opt) ==
  IF Decode(S, v).ok THEN {}
  ELSE
  CASE S.k = "Pipe" ->
         IF Decode(S.from, v).ok THEN Decode(S, v).issues ELSE Report(S.from, v, opt)
    [] S.k = "Union" ->
         IF S.message.override THEN {Issue(<<>>, "Union", "message")}
         ELSE UNION {Report(S.members[i], v, opt) : i \in DOMAIN S.members}
    [] S.k = "Array" ->
         IF v.t # "array" THEN Decode(S, v).issues
         ELSE LET bad == {i \in DOMAIN v.a : ~Decode(S.item, v.a[i]).ok}
                  shown == IF opt = "first" THEN {Min(bad)} ELSE bad
              IN UNION {Under(ToString(i), Report(S.item, v.a[i], opt)) : i \in shown}
    [] S.k = "OptionFromNullishOr" -> Report(S.value, v, opt)
    [] S.k = "Class" ->
         IF v.t # "object" THEN Decode(S, v).issues
         ELSE LET bad == {i \in DOMAIN S.fields : ~DecodeField(S.fields[i], v.o).ok}
                  shown == IF opt = "first" THEN {Min(bad)} ELSE bad
              IN UNION {Under(S.fields[i].name, ReportField(S.fields[i], v.o, opt)) : i \in shown}
    [] OTHER -> Decode(S, v).issues

\* ---- encoding a validated instance back to its plain shape
\* Encoding runs a pipe backwards and checks every rule on the way: a refinement
\* must hold of the value, the output side of toUpperCase / toLowerCase is the
\* refinement "is its own upper (lower) case form", and the value passes through
\* the transformation unchanged.
EncodeOp(op, a) ==
  IF op.op \in {"toUpperCase", "toLowerCase"}
  THEN IF a.t # "string" THEN Fail({Issue(<<>>, "Type", "string")})
       ELSE IF a.s = (IF op.op = "toUpperCase" THEN UpperOf(a.s) ELSE LowerOf(a.s)) THEN Ok(a)
       ELSE Fail({Issue(<<>>, "Refinement", op.op)})
  ELSE IF Holds(op, a) THEN Ok(a)
  ELSE Fail({Issue(<<>>, "Refinement", op.op)})

RECURSIVE EncodeOps(_, _, _)
EncodeOps(ops, i, a) ==
  IF i < 1 THEN Ok(a)
  ELSE LET r == EncodeOp(ops[i], a)
       IN IF r.ok THEN EncodeOps(ops, i - 1, r.out) ELSE r

RECURSIVE Encode(_, _)
Encode(S, a) ==
  CASE S.k = "String" ->
         IF a.t = "string" THEN Ok(a) ELSE Fail({Issue(<<>>, "Type", "string")})
    [] S.k = "Number" ->
         IF a.t = "number" THEN Ok(a) ELSE Fail({Issue(<<>>, "Type", "number")})
    [] S.k = "Boolean" ->
         IF a.t = "boolean" THEN Ok(a) ELSE Fail({Issue(<<>>, "Type", "boolean")})
    [] S.k = "Literal" ->
         IF a = Str(S.lit) THEN Ok(a) ELSE Fail({Issue(<<>>, "Type", "literal")})
    [] S.k = "Pipe" ->
         LET r == EncodeOps(S.ops, Len(S.ops), a)
         IN IF r.ok THEN Encode(S.from, r.out) ELSE r
    [] S.k = "propertySignature" -> Encode(S.schema, a)
    [] S.k = "Union" ->
         LET oks == {i \in DOMAIN S.members : Encode(S.members[i], a).ok}
         IN IF oks = {} THEN Fail(UNION {Encode(S.members[i], a).issues : i \in DOMAIN S.members})
            ELSE Encode(S.members[Min(oks)], a)
    [] S.k = "Array" ->
         IF a.t # "array" THEN Fail({Issue(<<>>, "Type", "array")})
         ELSE LET rs == [i \in DOMAIN a.a |-> Encode(S.item, a.a[i])]
              IN IF \A i \in DOMAIN rs : rs[i].ok
                 THEN Ok(Arr([i \in DOMAIN rs |-> rs[i].out]))
                 ELSE Fail(UNION {Under(ToString(i), rs[i].issues) : i \in DOMAIN rs})
    [] S.k = "OptionFromNullishOr" ->
         IF a.t = "none" THEN Ok(S.onNoneEncoding)
         ELSE IF a.t = "some" THEN Encode(S.value, a.x)
         ELSE Fail({Issue(<<>>, "Type", "Option")})
    [] S.k = "Class" ->
         IF a.t # "object" THEN Fail({Issue(<<>>, "Type", "object")})
         ELSE LET rs == [i \in DOMAIN S.fields |-> Encode(S.fields[i].sig, a.o[S.fields[i].name])]
                  names == {S.fields[i].name : i \in DOMAIN S.fields}
                  at(n) == CHOOSE i \in DOMAIN S.fields : S.fields[i].name = n
              IN IF \A i \in DOMAIN rs : rs[i].ok
                 THEN Ok(Obj([n \in names |-> rs[at(n)].out]))
                 ELSE Fail(UNION {Under(S.fields[i].name, rs[i].issues) : i \in DOMAIN rs})

\* ---- the schema a name exports
SchemaNames == {Schemas[i].name : i \in DOMAIN Schemas}
SchemaOf(name) == (CHOOSE e \in Range(Schemas) : e.name = name).schema

\* ---- arktype.ts: what a type expression of the scope admits
ScopeKeys == {bindings[i].key : i \in DOMAIN bindings}
DeclsOf(key) == {d \in Range(bindings) : d.key = key}

Keywords == {"string", "number", "boolean", "null", "undefined"}

\* the scope key a reference is read as naming: the shapes write a reference
\* with a lower-case first letter ('user', 'orderStatus') and the scope declares
\* the key with an upper-case one (User, OrderStatus)
Referenced(name) ==
  CASE name = "user" -> "User"
    [] name = "address" -> "Address"
    [] name = "customer" -> "Customer"
    [] name = "cartItem" -> "CartItem"
    [] name = "orderStatus" -> "OrderStatus"
    [] name = "paymentStatus" -> "PaymentStatus"
    [] name = "paymentMethod" -> "PaymentMethod"
    [] name = "productCategory" -> "ProductCategory"
    [] name = "role" -> "Role"
    [] name = "author" -> "Author"
    [] name = "tag" -> "Tag"
    [] name = "post" -> "Post"
    [] name = "edgeCaseUser" -> "EdgeCaseUser"
    [] name = "edgeCasePost" -> "EdgeCasePost"
    [] name = "validatedAddress" -> "ValidatedAddress"
    [] name = "validatedContact" -> "ValidatedContact"
    [] name = "innerValidated" -> "InnerValidated"
    [] OTHER -> name

\* the literals of a union of ['===', literal] units
RECURSIVE UnitsOf(_)
UnitsOf(def) ==
  CASE def.k = "unit" -> {def.lit}
    [] def.k = "union" -> UnitsOf(def.l) \cup UnitsOf(def.r)
    [] OTHER -> {}

RECURSIVE Satisfies(_, _)
RECURSIVE SatisfiesDecl(_, _)

SatisfiesDecl(d, v) ==
  IF d.kind = "enum" THEN Satisfies(d.def, v)
  ELSE /\ v.t = "object"
       /\ DOMAIN v.o = {d.fields[i].name : i \in DOMAIN d.fields}
       /\ \A i \in DOMAIN d.fields : Satisfies(d.fields[i].def, v.o[d.fields[i].name])

Satisfies(def, v) ==
  CASE def.k = "keyword" ->
         IF def.name \in Keywords THEN v.t = def.name
         ELSE /\ DeclsOf(Referenced(def.name)) # {}
              /\ \A d \in DeclsOf(Referenced(def.name)) : SatisfiesDecl(d, v)
    [] def.k = "union" -> Satisfies(def.l, v) \/ Satisfies(def.r, v)
    [] def.k = "array" -> v.t = "array" /\ \A i \in DOMAIN v.a : Satisfies(def.of, v.a[i])
    [] def.k = "unit" -> v = Str(def.lit)

\* ---- the caller's candidate values
Rep(c, n) == [i \in 1..n |-> c]
Max(S) == CHOOSE x \in S : \A y \in S : x >= y

\* a string that satisfies a pipe of string rules: the required prefix, then
\* "a" up to the largest required minimum length
SampleString(ops) ==
  LET mins == {1} \cup {ops[i].n : i \in {j \in DOMAIN ops : ops[j].op = "minLength"}}
      pre == IF \E i \in DOMAIN ops : ops[i].op = "startsWith"
             THEN ops[Min({i \in DOMAIN ops : ops[i].op = "startsWith"})].p
             ELSE <<>>
  IN pre \o Rep("a", Max({Max(mins) - Len(pre), 0}))

\* one plain value built to the schema's declared rules: optional fields null,
\* arrays empty, references by identifier
RECURSIVE Sample(_)
Sample(S) ==
  CASE S.k = "String" -> Str(<<"a">>)
    [] S.k = "Number" -> Num(1)
    [] S.k = "Boolean" -> Bool(TRUE)
    [] S.k = "Literal" -> Str(S.lit)
    [] S.k = "Pipe" -> IF S.from.k = "String" THEN Str(SampleString(S.ops)) ELSE Sample(S.from)
    [] S.k = "Union" -> Sample(S.members[1])
    [] S.k = "Array" -> Arr(<<>>)
    [] S.k = "OptionFromNullishOr" -> Null
    [] S.k = "propertySignature" -> Sample(S.schema)
    [] S.k = "Class" ->
         LET names == {S.fields[i].name : i \in DOMAIN S.fields}
             at(n) == CHOOSE i \in DOMAIN S.fields : S.fields[i].name = n
         IN Obj([n \in names |-> Sample(S.fields[at(n)].sig)])

StringPool == {Str(<<>>), Str(<<"a">>)}
NumberPool == {Num(-1), Num(0), Num(1)}
\* strings whose case mapping matters: lower case, upper case, and the two
\* characters whose mapping is longer than the character
CasePool ==
  {Str(<<"u", "s">>), Str(<<"U", "S">>), Str(<<"U+00DF", "a">>), Str(<<"U+0130">>)}

\* values at and just past the limits a pipe declares
OpValues(ops) ==
  UNION {
    CASE ops[i].op = "maxLength" -> {Str(Rep("a", ops[i].n)), Str(Rep("a", ops[i].n + 1))}
      [] ops[i].op = "startsWith" -> {Str(ops[i].p \o <<"a">>)}
      [] ops[i].op \in {"toUpperCase", "toLowerCase"} -> CasePool
      [] ops[i].op = "between" ->
           {Num(ops[i].lo - 1), Num(ops[i].lo), Num(ops[i].hi), Num(ops[i].hi + 1)}
      [] ops[i].op = "lessThan" -> {Num(ops[i].n - 1), Num(ops[i].n)}
      [] OTHER -> {}
    : i \in DOMAIN ops}

\* the values the caller tries for a field of the given schema
RECURSIVE Cands(_)
Cands(S) ==
  CASE S.k = "String" -> StringPool
    [] S.k = "Number" -> NumberPool
    [] S.k = "Boolean" -> {Bool(TRUE), Bool(FALSE)}
    [] S.k = "Literal" ->
         {Str(S.lit), Str(LowerOf(S.lit)), Str(UpperOf(S.lit)), Str(<<"\"">> \o S.lit)}
    [] S.k = "Pipe" -> Cands(S.from) \cup OpValues(S.ops) \cup {Sample(S)}
    [] S.k = "Union" -> UNION {Cands(S.members[i]) : i \in DOMAIN S.members}
    [] S.k = "Array" -> {Arr(<<>>)} \cup {Arr(<<e>>) : e \in Cands(S.item)}
    [] S.k = "OptionFromNullishOr" -> Cands(S.value) \cup {Null}
    [] S.k = "propertySignature" -> Cands(S.schema)
    [] S.k = "Class" -> {Sample(S)}

\* the primitive kind a field's schema starts from ("" for a union, an array
\* or a class), and a value of another primitive kind tried for such a field
RECURSIVE BaseKind(_)
BaseKind(sig) ==
  CASE sig.k \in {"String", "Number", "Boolean"} -> sig.k
    [] sig.k = "propertySignature" -> BaseKind(sig.schema)
    [] sig.k = "OptionFromNullishOr" -> BaseKind(sig.value)
    [] sig.k = "Pipe" -> BaseKind(sig.from)
    [] OTHER -> ""
Mistyped(sig) ==
  CASE BaseKind(sig) = "String" -> {Num(1)}
    [] BaseKind(sig) \in {"Number", "Boolean"} -> {Str(<<"a">>)}
    [] OTHER -> {}

\* malformed objects of a class: its sample record with the first required
\* string field empty, and with the last required field left out
Nested(C) ==
  LET r == Sample(C).o
      req == {i \in DOMAIN C.fields : C.fields[i].sig.k = "propertySignature"}
      strs == {i \in req : BaseKind(C.fields[i].sig) = "String"}
      last == C.fields[Max(req)].name
  IN {Obj([n \in DOMAIN r \ {last} |-> r[n]])}
     \cup {Obj([n \in DOMAIN r |-> IF n = C.fields[Min(strs)].name THEN Str(<<>>) ELSE r[n]]) :
             x \in IF strs = {} THEN {} ELSE {0}}

\* the nested objects tried for a reference field (a union of an identifier
\* string and a class, or an array of such unions)
RefCands(sig) ==
  LET S == IF sig.k = "propertySignature" THEN sig.schema ELSE sig
      U == IF S.k = "Array" THEN S.item ELSE S
  IN IF U.k = "Union" /\ \E i \in DOMAIN U.members : U.members[i].k = "Class"
     THEN LET C == U.members[Min({i \in DOMAIN U.members : U.members[i].k = "Class"})]
          IN IF S.k = "Array" THEN {Arr(<<x>>) : x \in Nested(C)} ELSE Nested(C)
     ELSE {}

\* ---- the caller
Init ==
  /\ entity = ""
  /\ origin = "none"
  /\ loaded = 0
  /\ input = Undefined
  /\ edits = 0
  /\ round = 0
  /\ pc = "idle"
  /\ result = NoResult
  /\ errors = "first"
  /\ reported = {}
  /\ encoded = Undefined
  /\ prior = Undefined

\* take a default constant of arktype.ts as the candidate
LoadDefault(i) ==
  /\ pc = "idle"
  /\ entity' = defaults[i].entity
  /\ origin' = "default"
  /\ loaded' = defaults[i].line
  /\ input' = defaults[i].value
  /\ edits' = 0
  /\ round' = 0
  /\ pc' = "loaded"
  /\ result' = NoResult
  /\ errors' = "first"
  /\ reported' = {}
  /\ encoded' = Undefined
  /\ prior' = Undefined

\* build a candidate for an exported schema of bindings.ts: for a class the
\* sample record, for an enum any of the strings tried for it
LoadCandidate(name, v) ==
  /\ pc = "idle"
  /\ name \in SchemaNames
  /\ v \in (IF SchemaOf(name).k = "Class" THEN {Sample(SchemaOf(name))} ELSE Cands(SchemaOf(name)))
  /\ entity' = name
  /\ origin' = "candidate"
  /\ loaded' = 0
  /\ input' = v
  /\ edits' = 0
  /\ round' = 0
  /\ pc' = "loaded"
  /\ result' = NoResult
  /\ errors' = "first"
  /\ reported' = {}
  /\ encoded' = Undefined
  /\ prior' = Undefined

IsClassEntity(name) == name \in SchemaNames /\ SchemaOf(name).k = "Class"

\* set one field of the candidate record of a class
SetField(name, f, v) ==
  /\ pc = "loaded"
  /\ origin = "candidate"
  /\ entity = name
  /\ round = 0
  /\ edits < MaxEdits
  /\ input' = Obj([n \in DOMAIN input.o \cup {f.name} |-> IF n = f.name THEN v ELSE input.o[n]])
  /\ edits' = edits + 1
  /\ UNCHANGED <<entity, origin, loaded, round, pc, result, errors, reported, encoded, prior>>

\* leave one field out of the candidate record of a class
OmitField(name, n) ==
  /\ pc = "loaded"
  /\ origin = "candidate"
  /\ entity = name
  /\ round = 0
  /\ edits < MaxEdits
  /\ n \in DOMAIN input.o
  /\ input' = Obj([m \in DOMAIN input.o \ {n} |-> input.o[m]])
  /\ edits' = edits + 1
  /\ UNCHANGED <<entity, origin, loaded, round, pc, result, errors, reported, encoded, prior>>

\* the parse options a caller can validate with; "first" is the default
ParseErrors == {"first", "all"}

\* decode the candidate through the entity's schema under a parse option
Validate(e) ==
  /\ pc = "loaded"
  /\ entity \in SchemaNames
  /\ result' = Decode(SchemaOf(entity), input)
  /\ errors' = e
  /\ reported' = Report(SchemaOf(entity), input, e)
  /\ pc' = "validated"
  /\ UNCHANGED <<entity, origin, loaded, input, edits, round, encoded, prior>>

\* encode the validated instance to its plain shape; an instance that breaks a
\* rule of its schema on the way back is not encodable
EncodeResult ==
  /\ pc = "validated"
  /\ result.ok
  /\ LET r == Encode(SchemaOf(entity), result.out)
     IN /\ encoded' = r.out
        /\ pc' = IF r.ok THEN "encoded" ELSE "unencodable"
  /\ UNCHANGED <<entity, origin, loaded, input, edits, round, result, errors, reported, prior>>

\* submit the encoded value as the next candidate
Resubmit ==
  /\ pc = "encoded"
  /\ round < MaxRounds
  /\ input' = encoded
  /\ prior' = result.out
  /\ round' = round + 1
  /\ pc' = "loaded"
  /\ result' = NoResult
  /\ errors' = "first"
  /\ reported' = {}
  /\ encoded' = Undefined
  /\ UNCHANGED <<entity, origin, loaded, edits>>

\* a validated value that holds no Option is itself a plain value
RECURSIVE IsPlain(_)
IsPlain(a) ==
  CASE a.t \in {"none", "some"} -> FALSE
    [] a.t = "array" -> \A i \in DOMAIN a.a : IsPlain(a.a[i])
    [] a.t = "object" -> \A n \in DOMAIN a.o : IsPlain(a.o[n])
    [] OTHER -> TRUE

\* submit the validated (normalized) output itself as the next candidate
ResubmitOutput ==
  /\ pc = "validated"
  /\ result.ok
  /\ IsPlain(result.out)
  /\ round < MaxRounds
  /\ input' = result.out
  /\ prior' = result.out
  /\ round' = round + 1
  /\ pc' = "loaded"
  /\ result' = NoResult
  /\ errors' = "first"
  /\ reported' = {}
  /\ encoded' = Undefined
  /\ UNCHANGED <<entity, origin, loaded, edits>>

ClassNames == {name \in SchemaNames : IsClassEntity(name)}

Next ==
  \/ \E i \in DOMAIN defaults : LoadDefault(i)
  \/ \E name \in SchemaNames : \E v \in Cands(SchemaOf(name)) \cup {Sample(SchemaOf(name))} :
       LoadCandidate(name, v)
  \/ \E name \in ClassNames : \E f \in Range(SchemaOf(name).fields) : \E v \in Cands(f.sig) \cup RefCands(f.sig) \cup Mistyped(f.sig) :
       SetField(name, f, v)
  \/ \E name \in ClassNames : \E f \in Range(SchemaOf(name).fields) : OmitField(name, f.name)
  \/ \E e \in ParseErrors : Validate(e)
  \/ EncodeResult
  \/ Resubmit
  \/ ResubmitOutput

Spec == Init /\ [][Next]_vars
\* ======================================================================
\* Properties
\* ======================================================================

\* a default constant is the candidate, as declared
DefaultLoaded == origin = "default" /\ pc = "loaded" /\ edits = 0 /\ round = 0
\* a default constant was validated through its entity's schema class
DefaultValidated == origin = "default" /\ pc = "validated" /\ edits = 0 /\ round = 0

\* the record entities of the scope and the default constants of an entity
RecordKeys == {d.key : d \in {e \in Range(bindings) : e.kind = "record"}}
DefaultsOf(key) == {d \in Range(defaults) : d.entity = key}

\* the fields of the current entity's class, and the optional ones
FieldsOfEntity == IF IsClassEntity(entity) THEN Range(SchemaOf(entity).fields) ELSE {}
IsOptional(f) ==
  \/ f.sig.k = "OptionFromNullishOr"
  \/ f.sig.k = "Pipe" /\ f.sig.from.k = "OptionFromNullishOr"
OptionalFields == {f \in FieldsOfEntity : IsOptional(f)}
\* the optional fields that declare a constraint on top of the optional wrapper
ConstrainedOptionalFields == {f \in OptionalFields : f.sig.k = "Pipe"}
InnerSchema(f) == IF f.sig.k = "Pipe" THEN f.sig.from.value ELSE f.sig.value
OuterOps(f) == IF f.sig.k = "Pipe" THEN f.sig.ops ELSE <<>>

\* the state of a field in a plain record: "omitted", "null" or "present"
FieldState(v, n) ==
  IF n \notin DOMAIN v.o THEN "omitted"
  ELSE IF v.o[n].t = "undefined" THEN "omitted"
  ELSE IF v.o[n].t = "null" THEN "null"
  ELSE "present"

\* the issues of the last validation that lie at or under a field
IssuesAt(n) == {i \in result.issues : Len(i.path) > 0 /\ i.path[1] = n}

\* C1: for every entity with a default constant and a schema class, validating
\* the default through the class succeeds.
C1_DefaultValidates == DefaultValidated => result.ok

\* C2: every default value structurally satisfies the declared shape of its
\* entity: exactly the declared fields, each value of the declared kind
\* (references read as naming the scope key of the same name).
C2_DefaultSatisfiesShape ==
  DefaultLoaded => \A d \in DeclsOf(entity) : SatisfiesDecl(d, input)

\* the fields of a declaration whose type is a reference to an enum of the scope
EnumFields(d) ==
  {f \in Range(d.fields) :
     /\ f.def.k = "keyword"
     /\ f.def.name \notin Keywords
     /\ \E e \in DeclsOf(Referenced(f.def.name)) : e.kind = "enum"}
EnumLiterals(key) == UNION {UnitsOf(e.def) : e \in DeclsOf(key)}

\* C3: in every default instance every enum-typed field holds exactly one of the
\* literals declared for its enum.
C3_DefaultEnumLiteral ==
  DefaultLoaded =>
    \A d \in DeclsOf(entity) : \A f \in EnumFields(d) :
      /\ f.name \in DOMAIN input.o
      /\ input.o[f.name] \in {Str(l) : l \in EnumLiterals(Referenced(f.def.name))}

\* C4: the catalog holds exactly one default constant per record entity: every
\* record entity of the scope has one, and no entity has two declarations.
C4_OneDefaultPerEntity ==
  /\ \A k \in RecordKeys : DefaultsOf(k) # {}
  /\ DefaultLoaded => Cardinality(DefaultsOf(entity)) = 1

\* C5: an entity name is declared in the schema catalog (bindings.ts) if and
\* only if it is declared in the type catalog (arktype.ts).
C5_SameEntitySet ==
  pc = "loaded" => (entity \in ScopeKeys <=> entity \in SchemaNames)

\* what the declared rules of an optional field admit for a present value: the
\* inner schema, then the constraints declared on the field
PresentValueValid(f, v) ==
  LET r == Decode(InnerSchema(f), v)
  IN r.ok /\ RunOps(OuterOps(f), 1, r.out).ok

\* C6: for every optional field, a record is accepted at that field when the
\* field is null, when it is absent and when it holds a valid value; null and
\* absent both decode to the same "no value".
C6_OptionalAccepted ==
  (pc = "validated" /\ origin = "candidate") =>
    \A f \in OptionalFields :
      /\ FieldState(input, f.name) \in {"omitted", "null"} => IssuesAt(f.name) = {}
      /\ (FieldState(input, f.name) = "present" /\ PresentValueValid(f, input.o[f.name]))
           => IssuesAt(f.name) = {}
      /\ (result.ok /\ FieldState(input, f.name) \in {"omitted", "null"})
           => result.out.o[f.name] = None

\* C7: for every optional field that declares a constraint, the constraint is
\* applied to the inner value whenever a value is present (a present value of
\* the right kind that violates it is rejected with a constraint issue naming
\* the field, one that satisfies it is not) and never to null or absent.
C7_ConstraintOnInnerValue ==
  (pc = "validated" /\ origin = "candidate") =>
    \A f \in ConstrainedOptionalFields :
      /\ FieldState(input, f.name) \in {"omitted", "null"} => IssuesAt(f.name) = {}
      /\ (FieldState(input, f.name) = "present" /\ Decode(InnerSchema(f), input.o[f.name]).ok)
           => IF PresentValueValid(f, input.o[f.name])
              THEN IssuesAt(f.name) = {}
              ELSE \E i \in IssuesAt(f.name) : i.tag = "Refinement" /\ i.path = <<f.name>>

C9_NormalizationIdempotent ==
  (pc = "validated" /\ round > 0) => (result.ok /\ result.out = prior)

\* the exported enums of bindings.ts, the enum a schema is, and the literal
\* set declared for an enum in the scope of arktype.ts
EnumNames == {e.name : e \in {x \in Range(Schemas) : x.schema.k = "Union"}}
EnumOfSchema(S) == {e.name : e \in {x \in Range(Schemas) : x.schema = S}} \cap EnumNames
LiteralValues(name) == {Str(l) : l \in EnumLiterals(name)}

\* C10: every enum-typed field, and every enum schema itself, accepts exactly
\* the strings of the declared literal set of its enum and rejects every other
\* string (another case, an extra leading quote); the enum of the scope admits
\* the same strings.
C10_EnumExact ==
  pc = "validated" =>
    /\ (entity \in EnumNames /\ input.t = "string")
         => /\ result.ok <=> input \in LiteralValues(entity)
            /\ \A d \in DeclsOf(entity) : SatisfiesDecl(d, input) <=> result.ok
    /\ \A f \in FieldsOfEntity :
         (f.sig.k = "propertySignature" /\ f.name \in DOMAIN input.o) =>
           LET S == f.sig.schema
               v == input.o[f.name]
           IN /\ (S.k = "Union" /\ EnumOfSchema(S) # {} /\ v.t = "string")
                   => \A e \in EnumOfSchema(S) : (IssuesAt(f.name) = {} <=> v \in LiteralValues(e))
              /\ (S.k = "Array" /\ EnumOfSchema(S.item) # {} /\ v.t = "array"
                    /\ \A i \in DOMAIN v.a : v.a[i].t = "string")
                   => \A e \in EnumOfSchema(S.item) :
                        (IssuesAt(f.name) = {} <=> \A i \in DOMAIN v.a : v.a[i] \in LiteralValues(e))

\* the status of an Order set to a declared literal in lower case was rejected
\* at that field
C10_Witness ==
  /\ pc = "validated"
  /\ entity = "Order"
  /\ origin = "candidate"
  /\ "status" \in DOMAIN input.o
  /\ input.o["status"] = Str(<<"p", "e", "n", "d", "i", "n", "g">>)
  /\ \E i \in IssuesAt("status") : i.path = <<"status">>


\* ---- reference fields
\* what the declared rules of a schema admit, the constraints of an optional
\* field read on the value inside it (null and absent are "no value")
RECURSIVE Conforms(_, _)
Conforms(S, v) ==
  CASE S.k = "propertySignature" -> Conforms(S.schema, v)
    [] S.k = "OptionFromNullishOr" -> v.t \in {"null", "undefined"} \/ Conforms(S.value, v)
    [] S.k = "Pipe" ->
         IF S.from.k = "OptionFromNullishOr"
         THEN \/ v.t \in {"null", "undefined"}
              \/ /\ Conforms(S.from.value, v)
                 /\ RunOps(S.ops, 1, Decode(S.from.value, v).out).ok
         ELSE Decode(S, v).ok
    [] S.k = "Union" -> \E i \in DOMAIN S.members : Conforms(S.members[i], v)
    [] S.k = "Array" -> v.t = "array" /\ \A i \in DOMAIN v.a : Conforms(S.item, v.a[i])
    [] S.k = "Class" ->
         /\ v.t = "object"
         /\ \A f \in Range(S.fields) :
              IF f.sig.k = "propertySignature"
              THEN f.name \in DOMAIN v.o /\ Conforms(f.sig, v.o[f.name])
              ELSE Conforms(f.sig, IF f.name \in DOMAIN v.o THEN v.o[f.name] ELSE Undefined)
    [] OTHER -> Decode(S, v).ok

\* a reference: a union of an identifier string and a class
IsReference(S) == S.k = "Union" /\ \E i \in DOMAIN S.members : S.members[i].k = "Class"
ReferencedClass(S) == S.members[Min({i \in DOMAIN S.members : S.members[i].k = "Class"})]
\* the reference fields of the current entity: single references and arrays of them
ReferenceFields ==
  {f \in FieldsOfEntity : f.sig.k = "propertySignature" /\ IsReference(f.sig.schema)}
ReferenceArrayFields ==
  {f \in FieldsOfEntity :
     f.sig.k = "propertySignature" /\ f.sig.schema.k = "Array" /\ IsReference(f.sig.schema.item)}
\* what a reference is claimed to accept
RefAccepts(S, v) ==
  \/ v.t = "string" /\ Len(v.s) > 0
  \/ v.t = "object" /\ Conforms(ReferencedClass(S), v)

\* C11: every reference field accepts a value if and only if it is a non-empty
\* identifier string or a fully valid nested object of the referenced entity's
\* shape; the empty string is rejected.
C11_ReferenceAccepts ==
  (pc = "validated" /\ origin = "candidate") =>
    /\ \A f \in ReferenceFields : f.name \in DOMAIN input.o =>
         (IssuesAt(f.name) = {} <=> RefAccepts(f.sig.schema, input.o[f.name]))
    /\ \A f \in ReferenceArrayFields :
         (f.name \in DOMAIN input.o /\ input.o[f.name].t = "array") =>
           (IssuesAt(f.name) = {}
              <=> \A i \in DOMAIN input.o[f.name].a :
                    RefAccepts(f.sig.schema.item, input.o[f.name].a[i]))

\* the errors the caller was given that lie at or under a field
ReportedAt(n) == {i \in reported : Len(i.path) > 0 /\ i.path[1] = n}

\* C12: when a reference field holds a malformed nested object the record is
\* rejected, and the errors reported for that field are scoped to the nested
\* field path: they name the failing field inside the nested object.
C12_NestedErrorsScoped ==
  (pc = "validated" /\ origin = "candidate") =>
    \A f \in ReferenceFields :
      (/\ f.name \in DOMAIN input.o
       /\ input.o[f.name].t = "object"
       /\ ~Decode(ReferencedClass(f.sig.schema), input.o[f.name]).ok)
        => /\ ~result.ok
           /\ \A i \in ReportedAt(f.name) : Len(i.path) >= 2

\* ---- Address.street
\* C13: an Address whose city, state, postalCode and country are valid is
\* rejected with a constraint error on street when street is the empty string,
\* accepted for every street of 1 to 200 characters, and rejected with a
\* constraint error on street for 201 characters.
C13_AddressStreet ==
  (/\ pc = "validated" /\ origin = "candidate" /\ entity = "Address"
   /\ "street" \in DOMAIN input.o /\ input.o["street"].t = "string"
   /\ \A f \in FieldsOfEntity : f.name # "street" => DecodeField(f, input.o).ok)
    => LET n == Len(input.o["street"].s)
       IN /\ result.ok <=> (n >= 1 /\ n <= 200)
          /\ (n = 0 \/ n > 200)
               => \E i \in reported : i.path = <<"street">> /\ i.tag = "Refinement"

\* an Address with a street of 201 characters and every other field valid was rejected
C13_Witness ==
  /\ pc = "validated" /\ origin = "candidate" /\ entity = "Address"
  /\ "street" \in DOMAIN input.o
  /\ input.o["street"] = Str(Rep("a", 201))
  /\ \A f \in FieldsOfEntity : f.name # "street" => DecodeField(f, input.o).ok
  /\ ~result.ok

\* ---- aggregation of errors
\* the fields of the current entity that the submitted record violates
FailingFields == {f \in FieldsOfEntity : ~DecodeField(f, input.o).ok}

\* C14: when a submitted record has two or more fields that each violate a
\* rule, the errors given to the caller hold a field-scoped error for every one
\* of those fields, not only for the first.
C14_ErrorsAggregated ==
  (pc = "validated" /\ IsClassEntity(entity) /\ input.t = "object"
     /\ Cardinality(FailingFields) >= 2)
    => \A f \in FailingFields : ReportedAt(f.name) # {}

\* ---- missing fields
RequiredFields == {f \in FieldsOfEntity : f.sig.k = "propertySignature"}

C16_ReferenceNotResolved ==
  (pc = "validated" /\ origin = "candidate") =>
    /\ \A f \in ReferenceFields :
         (f.name \in DOMAIN input.o /\ input.o[f.name].t = "string" /\ Len(input.o[f.name].s) > 0)
           => /\ IssuesAt(f.name) = {}
              /\ result.ok => result.out.o[f.name] = input.o[f.name]
    /\ \A f \in ReferenceArrayFields :
         (f.name \in DOMAIN input.o /\ input.o[f.name].t = "array") =>
           \A i \in DOMAIN input.o[f.name].a :
             LET v == input.o[f.name].a[i]
             IN (v.t = "string" /\ Len(v.s) > 0)
                  => /\ \A e \in IssuesAt(f.name) : Len(e.path) < 2 \/ e.path[2] # ToString(i)
                     /\ result.ok => result.out.o[f.name].a[i] = v

\* a Customer whose user is an identifier string was accepted with the string kept
C16_Witness ==
  /\ pc = "validated" /\ origin = "candidate" /\ entity = "Customer"
  /\ "user" \in DOMAIN input.o
  /\ input.o["user"] = Str(<<"a">>)
  /\ result.ok
  /\ result.out.o["user"] = Str(<<"a">>)

\* ---- nulls of the default instances
\* the keywords a type expression names, and the optional ones (T | undefined | null)
RECURSIVE KeywordsIn(_)
KeywordsIn(def) ==
  CASE def.k = "keyword" -> {def.name}
    [] def.k = "union" -> KeywordsIn(def.l) \cup KeywordsIn(def.r)
    [] OTHER -> {}
IsOptionalDef(def) == def.k = "union" /\ "null" \in KeywordsIn(def)
\* the record declarations a field's type refers to
NestedDecls(def) ==
  IF def.k = "keyword" /\ def.name \notin Keywords
  THEN {d \in DeclsOf(Referenced(def.name)) : d.kind = "record"}
  ELSE {}

\* a value holds null exactly at the optional fields of a declaration, also
\* inside its nested objects
RECURSIVE NullsWhereOptional(_, _)
NullsWhereOptional(d, v) ==
  /\ v.t = "object"
  /\ \A f \in Range(d.fields) :
       /\ f.name \in DOMAIN v.o
       /\ v.o[f.name].t # "undefined"
       /\ v.o[f.name] = Null <=> IsOptionalDef(f.def)
       /\ v.o[f.name].t = "object" => \A n \in NestedDecls(f.def) : NullsWhereOptional(n, v.o[f.name])

\* C17: in every default instance a field holds null if and only if the
\* entity's shape declares it optional (T | undefined | null): every required
\* field holds a value, no optional field is absent or populated.
C17_DefaultNulls ==
  DefaultLoaded => \A d \in DeclsOf(entity) : NullsWhereOptional(d, input)

\* defaultDeepNestedValidation is loaded, with null in its three optional fields
C17_Witness ==
  /\ DefaultLoaded
  /\ entity = "DeepNestedValidation"
  /\ input.o["billingAddress"] = Null
  /\ input.o["secondaryContact"] = Null
  /\ input.o["creditLimit"] = Null
  /\ input.o["primaryAddress"].o["latitude"] = Null

\* ---- the order of the checks of a field
\* a present value is of the primitive kind its field starts from (null and
\* absent are of the kind of an optional field)
KindOk(f, v) ==
  \/ BaseKind(f.sig) = ""
  \/ BaseKind(f.sig) = "String" /\ v.t = "string"
  \/ BaseKind(f.sig) = "Number" /\ v.t = "number"
  \/ BaseKind(f.sig) = "Boolean" /\ v.t = "boolean"
  \/ IsOptional(f) /\ v.t \in {"null", "undefined"}
TagsAt(n) == {i.tag : i \in {j \in IssuesAt(n) \cup ReportedAt(n) : j.path = <<n>>}}

ValueObjects == {"Address", "CartItem", "ValidatedAddress", "ValidatedContact", "InnerValidated"}
\* a declaration of the scope declares id: 'string'; a class declares a
\* required string id
DeclaresId(d) == \E f \in Range(d.fields) : f.name = "id" /\ f.def = Kw("string")
ClassDeclaresId(C) ==
  \E f \in Range(C.fields) :
    f.name = "id" /\ f.sig.k = "propertySignature" /\ BaseKind(f.sig) = "String"
HasFieldId(fields) == \E f \in Range(fields) : f.name = "id"

\* C20: every record entity declares a required string field id, except the
\* value objects Address, CartItem, ValidatedAddress, ValidatedContact and
\* InnerValidated, which declare no id field; in both catalogs.
C20_IdField ==
  pc = "loaded" =>
    /\ \A d \in {e \in DeclsOf(entity) : e.kind = "record"} :
         IF entity \in ValueObjects THEN ~HasFieldId(d.fields) ELSE DeclaresId(d)
    /\ IsClassEntity(entity) =>
         IF entity \in ValueObjects THEN ~HasFieldId(SchemaOf(entity).fields)
         ELSE ClassDeclaresId(SchemaOf(entity))

\* the sample record of the value object InnerValidated is loaded, and it has no id
C20_Witness ==
  /\ pc = "loaded" /\ origin = "candidate" /\ entity = "InnerValidated"
  /\ edits = 0
  /\ "id" \notin DOMAIN input.o
  /\ \A d \in DeclsOf("InnerValidated") : ~HasFieldId(d.fields)

\* ---- the plain shapes
\* the plain shapes by name, the shape of an entity (E -> EEncoded), the
\* interfaces and the literal-union types
EncodedNames == {s.name : s \in Range(EncodedShapes)}
ShapesNamed(n) == {s \in Range(EncodedShapes) : s.name = n}
EncodedOf(name) == ShapesNamed(name \o "Encoded")
InterfaceNames == {s.name : s \in {x \in Range(EncodedShapes) : x.kind = "interface"}}
LiteralUnionNames ==
  {s.name : s \in {x \in Range(EncodedShapes) : x.kind = "type" /\ UnitsOf(x.def) # {}}}

\* a type of plain data: string, number, boolean, null, undefined, an enum
\* literal union, another interface, a ReadonlyArray or a union of such
RECURSIVE PlainType(_)
PlainType(def) ==
  CASE def.k = "keyword" -> def.name \in Keywords \cup InterfaceNames \cup LiteralUnionNames
    [] def.k = "union" -> PlainType(def.l) /\ PlainType(def.r)
    [] def.k = "array" -> PlainType(def.of)
    [] OTHER -> FALSE

\* C21: every field of the *Encoded interface of the entity in use is typed only
\* by string, number, boolean, null, undefined, a ReadonlyArray of such, an
\* enum literal union or another *Encoded interface, never by a schema class;
\* and so is every interface a field type names.
C21_EncodedClosed ==
  (pc # "idle" /\ IsClassEntity(entity)) =>
    /\ EncodedOf(entity) # {}
    /\ \A s \in EncodedOf(entity) : \A f \in Range(s.fields) :
         /\ PlainType(f.def)
         /\ KeywordsIn(f.def) \cap SchemaNames = {}
         /\ \A n \in KeywordsIn(f.def) \cap InterfaceNames :
              \A t \in ShapesNamed(n) : \A g \in Range(t.fields) : PlainType(g.def)

\* a Customer is in use; its plain shape types user by string | UserEncoded
C21_Witness ==
  /\ pc = "encoded" /\ entity = "Customer"
  /\ \E s \in EncodedOf("Customer") : \E f \in Range(s.fields) :
       f.name = "user" /\ f.def = Or(Kw("string"), Kw("UserEncoded"))

\* ---- references of the scope
\* the names a type expression mentions, arrays included, and those that are
\* not keywords of the type language: the references
RECURSIVE NamesIn(_)
NamesIn(def) ==
  CASE def.k = "keyword" -> {def.name}
    [] def.k = "union" -> NamesIn(def.l) \cup NamesIn(def.r)
    [] def.k = "array" -> NamesIn(def.of)
    [] OTHER -> {}
ReferencesOf(d) == UNION {NamesIn(f.def) : f \in Range(d.fields)} \ Keywords

\* C22: every entity name referenced inside a shape of the scope (as a field
\* type, an array element type or a member of a reference union) is exactly
\* the name of a key declared in the scope.
C22_ReferencesResolve ==
  pc = "loaded" => \A d \in DeclsOf(entity) : ReferencesOf(d) \subseteq ScopeKeys

\* the references up to the case of the first letter: every referenced name
\* differs from every key, and is a declared key once its first letter is
\* capitalised
ReferencesResolveUpToCase ==
  pc = "loaded" =>
    \A d \in DeclsOf(entity) : \A n \in ReferencesOf(d) :
      Referenced(n) \in ScopeKeys /\ Referenced(n) # n

\* ---- agreement of the two catalogs
\* the kind of a field: <<"string">>, <<"number">>, <<"boolean">>,
\* <<"array", kind of the element...>>, <<"nested", entity>>,
\* <<"reference", entity>>, <<"enum", enum>>; <<"other">> for anything else
\* the type of a field of the scope without its | undefined | null
RECURSIVE CoreDef(_)
CoreDef(def) ==
  IF def.k = "union" /\ def.r \in {Kw("null"), Kw("undefined")} THEN CoreDef(def.l) ELSE def
RECURSIVE KindOfDef(_)
KindOfDef(def) ==
  LET c == CoreDef(def)
  IN CASE c.k = "keyword" /\ c.name \in {"string", "number", "boolean"} -> <<c.name>>
       [] c.k = "keyword" /\ c.name \notin Keywords ->
            IF \E d \in DeclsOf(Referenced(c.name)) : d.kind = "enum"
            THEN <<"enum", Referenced(c.name)>>
            ELSE <<"nested", Referenced(c.name)>>
       [] c.k = "array" -> <<"array">> \o KindOfDef(c.of)
       [] c.k = "union" /\ c.r = Kw("string") /\ c.l.k = "keyword" /\ c.l.name \notin Keywords ->
            <<"reference", Referenced(c.l.name)>>
       [] OTHER -> <<"other">>
RECURSIVE KindOfSig(_)
KindOfSig(S) ==
  CASE S.k \in {"propertySignature"} -> KindOfSig(S.schema)
    [] S.k = "OptionFromNullishOr" -> KindOfSig(S.value)
    [] S.k = "Pipe" -> KindOfSig(S.from)
    [] S.k = "String" -> <<"string">>
    [] S.k = "Number" -> <<"number">>
    [] S.k = "Boolean" -> <<"boolean">>
    [] S.k = "Array" -> <<"array">> \o KindOfSig(S.item)
    [] S.k = "Class" -> <<"nested", S.id>>
    [] S.k = "Union" /\ IsReference(S) -> <<"reference", ReferencedClass(S).id>>
    [] S.k = "Union" /\ EnumOfSchema(S) # {} -> <<"enum", CHOOSE n \in EnumOfSchema(S) : TRUE>>
    [] OTHER -> <<"other">>

FieldNames(fields) == {fields[i].name : i \in DOMAIN fields}
FieldNamed(fields, n) == fields[CHOOSE i \in DOMAIN fields : fields[i].name = n]

\* a declaration of the scope and a schema class agree field by field
AgreeFieldByField(d, C) ==
  /\ FieldNames(d.fields) = FieldNames(C.fields)
  /\ \A n \in FieldNames(d.fields) \cap FieldNames(C.fields) :
       LET a == FieldNamed(d.fields, n)
           b == FieldNamed(C.fields, n)
       IN /\ KindOfDef(a.def) = KindOfSig(b.sig)
          /\ KindOfDef(a.def) # <<"other">>
          /\ IsOptionalDef(a.def) <=> IsOptional(b)

\* C23: for every entity declared in both catalogs the two declarations agree
\* field by field: the same field names, the same kind (string, number,
\* boolean, array, nested entity, reference, enum) and the same optionality
\* (T | undefined | null in arktype.ts exactly when OptionFromNullishOr in
\* bindings.ts).
C23_CatalogsAgree ==
  (pc = "loaded" /\ IsClassEntity(entity)) =>
    /\ DeclsOf(entity) # {}
    /\ \A d \in DeclsOf(entity) : AgreeFieldByField(d, SchemaOf(entity))

\* the sample record of ComplexPayment is loaded; both catalogs declare its
\* optional notes, its enum status and its reference user
C23_Witness ==
  /\ pc = "loaded" /\ entity = "ComplexPayment" /\ origin = "candidate"
  /\ \A d \in DeclsOf("ComplexPayment") :
       /\ KindOfDef(FieldNamed(d.fields, "user").def) = <<"reference", "EdgeCaseUser">>
       /\ KindOfDef(FieldNamed(d.fields, "status").def) = <<"enum", "PaymentStatus">>
       /\ IsOptionalDef(FieldNamed(d.fields, "notes").def)
  /\ IsOptional(FieldNamed(ComplexPayment.fields, "notes"))

\* ---- a class and its plain shape
\* the type of the plain shape a schema encodes to
RECURSIVE EncodedTypeOf(_)
EncodedTypeOf(S) ==
  CASE S.k = "propertySignature" -> EncodedTypeOf(S.schema)
    [] S.k = "OptionFromNullishOr" -> Or(Or(EncodedTypeOf(S.value), Kw("null")), Kw("undefined"))
    [] S.k = "Pipe" -> EncodedTypeOf(S.from)
    [] S.k = "String" -> Kw("string")
    [] S.k = "Number" -> Kw("number")
    [] S.k = "Boolean" -> Kw("boolean")
    [] S.k = "Literal" -> Eq(S.lit)
    [] S.k = "Array" -> ArrOf(EncodedTypeOf(S.item))
    [] S.k = "Class" -> Kw(S.id \o "Encoded")
    [] S.k = "Union" ->
         IF EnumOfSchema(S) # {}
         THEN Kw((CHOOSE n \in EnumOfSchema(S) : TRUE) \o "Encoded")
         ELSE IF Len(S.members) = 2
              THEN Or(EncodedTypeOf(S.members[1]), EncodedTypeOf(S.members[2]))
              ELSE Kw("unknown")
\* a type admits null or undefined
Nullish(def) == NamesIn(def) \cap {"null", "undefined"} # {}

\* C24: every entity class E of bindings.ts has exactly one interface EEncoded
\* and every interface is the EEncoded of a class; EEncoded has exactly E's
\* field names, every OptionFromNullishOr field typed T | null | undefined,
\* every reference field typed string | XEncoded and every other field
\* required, of the plain type of its schema.
C24_ClassAndEncoded ==
  (pc # "idle" /\ IsClassEntity(entity)) =>
    /\ Cardinality(EncodedOf(entity)) = 1
    /\ \A s \in EncodedOf(entity) :
         /\ s.kind = "interface"
         /\ Len(s.fields) = Cardinality(FieldNames(s.fields))
         /\ FieldNames(s.fields) = FieldNames(SchemaOf(entity).fields)
         /\ \A f \in Range(SchemaOf(entity).fields) : \A g \in Range(s.fields) :
              g.name = f.name =>
                /\ g.def = EncodedTypeOf(f.sig)
                /\ IsOptional(f) <=> Nullish(g.def)
                /\ f \in ReferenceFields =>
                     g.def = Or(Kw("string"), Kw(ReferencedClass(f.sig.schema).id \o "Encoded"))
    /\ InterfaceNames = {n \o "Encoded" : n \in ClassNames}
    /\ Cardinality({i \in DOMAIN EncodedShapes : EncodedShapes[i].kind = "interface"})
         = Cardinality(ClassNames)

\* a Post is in use: its optional excerpt is string | null | undefined in
\* PostEncoded, its reference author string | AuthorEncoded, its title string
C24_Witness ==
  /\ pc = "validated" /\ entity = "Post"
  /\ \E s \in EncodedOf("Post") :
       /\ FieldNamed(s.fields, "excerpt").def = Or(Or(Kw("string"), Kw("null")), Kw("undefined"))
       /\ FieldNamed(s.fields, "author").def = Or(Kw("string"), Kw("AuthorEncoded"))
       /\ FieldNamed(s.fields, "title").def = Kw("string")
  /\ IsOptional(FieldNamed(Post.fields, "excerpt"))

\* ---- the three declarations of an enum
\* the literals of the Schema.Union of an enum and of its *Encoded type
SchemaLiterals(name) == {SchemaOf(name).members[i].lit : i \in DOMAIN SchemaOf(name).members}
EncodedLiterals(name) == UNION {UnitsOf(s.def) : s \in EncodedOf(name)}
FiveEnums == {"Role", "OrderStatus", "PaymentStatus", "PaymentMethod", "ProductCategory"}

\* C25: each of the five enums Role, OrderStatus, PaymentStatus, PaymentMethod
\* and ProductCategory has the same literal set in its three declarations: the
\* entry of the arktype scope, the Schema.Union of bindings.ts and the *Encoded
\* literal-union type; a string is accepted by the schema exactly when it is
\* one of them.
C25_EnumLiteralsAgree ==
  (pc # "idle" /\ entity \in FiveEnums) =>
    /\ entity \in EnumNames
    /\ DeclsOf(entity) # {} /\ \A d \in DeclsOf(entity) : d.kind = "enum"
    /\ EncodedOf(entity) # {} /\ \A s \in EncodedOf(entity) : s.kind = "type"
    /\ \A d \in DeclsOf(entity) : UnitsOf(d.def) = SchemaLiterals(entity)
    /\ \A s \in EncodedOf(entity) : UnitsOf(s.def) = SchemaLiterals(entity)
    /\ (pc = "validated" /\ input.t = "string") =>
         /\ result.ok <=> input.s \in EnumLiterals(entity)
         /\ result.ok <=> input.s \in EncodedLiterals(entity)

\* the string "Cash" was accepted as a PaymentMethod, and is a literal of the
\* scope entry and of PaymentMethodEncoded
C25_Witness ==
  /\ pc = "validated" /\ entity = "PaymentMethod"
  /\ input = Str(<<"C", "a", "s", "h">>)
  /\ result.ok
  /\ <<"C", "a", "s", "h">> \in EnumLiterals("PaymentMethod") \cap EncodedLiterals("PaymentMethod")

\* ---- Address.country and ValidatedAddress.countryCode
countrySchema == FieldNamed(Address.fields, "country").sig.schema
countryCodeSchema == FieldNamed(ValidatedAddress.fields, "countryCode").sig.schema
\* the string submitted for the country field of the record in use, if any
CountryInputs ==
  IF pc = "validated" /\ input.t = "object"
  THEN {input.o[n] : n \in {m \in DOMAIN input.o :
          /\ input.o[m].t = "string"
          /\ \/ entity = "Address" /\ m = "country"
             \/ entity = "ValidatedAddress" /\ m = "countryCode"}}
  ELSE {}
\* the two fields treat a string alike: both reject it, or both accept it with
\* the same normalized output
SameOutcome(v) ==
  LET a == Decode(countrySchema, v)
      b == Decode(countryCodeSchema, v)
  IN /\ a.ok <=> b.ok
     /\ (a.ok /\ b.ok) => a.out = b.out
Ascii(v) == \A i \in DOMAIN v.s : v.s[i] \in Range(LowerLetters) \cup Range(UpperLetters)

\* C26: Address.country and ValidatedAddress.countryCode accept exactly the
\* same input strings and produce the same normalized output for each: the
\* order of the case normalization and the length checks does not change the
\* result.
C26_CountryOrderIrrelevant ==
  \A v \in CountryInputs :
    /\ SameOutcome(v)
    /\ entity = "Address" => (IssuesAt("country") = {} <=> Decode(countrySchema, v).ok)
    /\ entity = "ValidatedAddress" =>
         (IssuesAt("countryCode") = {} <=> Decode(countryCodeSchema, v).ok)

\* the two fields treat alike every submitted string of the letters a-z, A-Z
CountryAgreeOnAscii == \A v \in CountryInputs : Ascii(v) => SameOutcome(v)

\* ---- the order of the declarations of bindings.ts
\* the place of an exported schema in the file, and the exported schemas a
\* schema expression refers to directly: as a nested field, an array element,
\* the inner schema of an optional field or a member of a reference union
Position(name) == CHOOSE i \in DOMAIN Schemas : Schemas[i].name = name
ExportsOf(S) == {e.name : e \in {x \in Range(Schemas) : x.schema = S}}
RECURSIVE DirectRefs(_)
DirectRefs(S) ==
  IF ExportsOf(S) # {} THEN ExportsOf(S)
  ELSE CASE S.k = "propertySignature" -> DirectRefs(S.schema)
         [] S.k = "OptionFromNullishOr" -> DirectRefs(S.value)
         [] S.k = "Pipe" -> DirectRefs(S.from)
         [] S.k = "Array" -> DirectRefs(S.item)
         [] S.k = "Union" -> UNION {DirectRefs(S.members[i]) : i \in DOMAIN S.members}
         [] S.k = "Class" -> {"?"}
         [] OTHER -> {}
RefsOfClass(name) == UNION {DirectRefs(f.sig) : f \in Range(SchemaOf(name).fields)}
\* the exported schemas reachable from a class through n + 1 references
RECURSIVE Reach(_, _)
Reach(name, n) ==
  LET direct == RefsOfClass(name) \cap ClassNames
  IN IF n = 0 THEN RefsOfClass(name)
     ELSE RefsOfClass(name) \cup UNION {Reach(r, n - 1) : r \in direct}

\* C27: in bindings.ts every schema class or enum a class refers to (as nested
\* field, array element, optional inner or member of a reference union) is an
\* export declared earlier in the file than the class; so no class reaches
\* itself through references.
C27_DependencyOrder ==
  (pc # "idle" /\ IsClassEntity(entity)) =>
    /\ RefsOfClass(entity) \subseteq SchemaNames
    /\ \A r \in RefsOfClass(entity) : Position(r) < Position(entity)
    /\ entity \notin Reach(entity, Len(Schemas))

\* an Order is in use: it refers to Customer, CartItem, OrderStatus and
\* Address, each declared before it
C27_Witness ==
  /\ pc = "validated" /\ entity = "Order"
  /\ RefsOfClass("Order") = {"Customer", "CartItem", "OrderStatus", "Address"}
  /\ Position("OrderStatus") + 1 = Position("Order")

\* ---- keys of the scope declared more than once
\* the shape of a declaration, without the line it is declared at
ShapeOf(d) == [kind |-> d.kind, def |-> d.def, fields |-> d.fields]
\* the declaration that wins: of the properties of an object literal with the
\* same name the last one is kept
Effective(key) == CHOOSE d \in DeclsOf(key) : \A e \in DeclsOf(key) : e.line <= d.line

\* C28: whenever a key of the scope is declared more than once, all of its
\* declarations have the same shape field for field, so the effective shape
\* does not depend on which of them wins.
C28_DuplicatesIdentical ==
  (pc = "loaded" /\ entity \in ScopeKeys) =>
    \A d \in DeclsOf(entity) :
      /\ ShapeOf(d) = ShapeOf(Effective(entity))
      /\ SatisfiesDecl(d, input) <=> SatisfiesDecl(Effective(entity), input)

\* the default of NetworkTypes is loaded; the scope declares NetworkTypes twice
C28_Witness ==
  /\ pc = "loaded" /\ entity = "NetworkTypes"
  /\ Cardinality(DeclsOf("NetworkTypes")) = 2
  /\ Effective("NetworkTypes").line = 82

\* ---- satisfiable rules
\* every rule a field declares, inside and on top of an optional wrapper
RECURSIVE OpsOf(_)
OpsOf(S) ==
  CASE S.k = "propertySignature" -> OpsOf(S.schema)
    [] S.k = "OptionFromNullishOr" -> OpsOf(S.value)
    [] S.k = "Pipe" -> OpsOf(S.from) \o S.ops
    [] OTHER -> <<>>
\* the least length and value the rules ask for, and the greatest they allow
LowerLengths(ops) ==
  {ops[i].n : i \in {j \in DOMAIN ops : ops[j].op = "minLength"}}
    \cup {1 : i \in {j \in DOMAIN ops : ops[j].op = "nonEmptyString"}}
    \cup {Len(ops[i].p) : i \in {j \in DOMAIN ops : ops[j].op = "startsWith"}}
UpperLengths(ops) == {ops[i].n : i \in {j \in DOMAIN ops : ops[j].op = "maxLength"}}
BoundsConsistent(f) ==
  LET ops == OpsOf(f.sig)
  IN /\ \A lo \in LowerLengths(ops) : \A hi \in UpperLengths(ops) : lo <= hi
     /\ \A i \in DOMAIN ops : ops[i].op = "between" => ops[i].lo < ops[i].hi
     /\ \A i, j \in DOMAIN ops :
          (ops[i].op \in {"positive", "nonNegative"} /\ ops[j].op = "lessThan") => 0 < ops[j].n
\* the values the caller tries for a field, and whether the field accepts one
\* of them, or its absence
Tried(f) == Cands(f.sig) \cup Mistyped(f.sig) \cup {Sample(f.sig)}
Satisfiable(f) ==
  \/ DecodeField(f, [n \in {} |-> Null]).ok
  \/ \E v \in Tried(f) : DecodeField(f, [n \in {f.name} |-> v]).ok
HasRules(f) == OpsOf(f.sig) # <<>>

\* C29: the rules of every field of the schema catalog are satisfiable: a
\* minimum length is at most the maximum length, a numeric lower bound is below
\* the upper bound, and at least one value passes all of the field's rules.
C29_RulesSatisfiable ==
  (pc = "validated" /\ IsClassEntity(entity)) =>
    \A f \in FieldsOfEntity : HasRules(f) => (BoundsConsistent(f) /\ Satisfiable(f))

\* the declared bounds of every field are consistent, and every field accepts
\* some value when the rules of an optional field are read on the value inside it
RulesSatisfiableAsDeclared ==
  (pc = "validated" /\ IsClassEntity(entity)) =>
    \A f \in FieldsOfEntity :
      /\ BoundsConsistent(f)
      /\ \E v \in Tried(f) : Conforms(f.sig, v)

\* ---- nested objects of the default constants
\* the fields of a declaration typed by a record entity itself (required, not
\* a reference union, not an array), with the entity
NestedEntityFields(d) ==
  {f \in Range(d.fields) :
     /\ f.def.k = "keyword"
     /\ f.def.name \notin Keywords
     /\ \E e \in DeclsOf(Referenced(f.def.name)) : e.kind = "record"}

\* C30: wherever a default instance holds an inline nested object for a
\* required nested-entity field, that object is field for field equal to the
\* default constant of the nested entity.
C30_NestedDefaultsEqual ==
  DefaultLoaded =>
    \A d \in DeclsOf(entity) : \A f \in NestedEntityFields(d) :
      /\ f.name \in DOMAIN input.o
      /\ input.o[f.name].t = "object"
      /\ DefaultsOf(Referenced(f.def.name)) # {}
      /\ \A n \in DefaultsOf(Referenced(f.def.name)) : input.o[f.name] = n.value

\* defaultDeepNestedValidation is loaded: its primaryContact is the value of
\* defaultValidatedContact
C30_Witness ==
  /\ DefaultLoaded /\ entity = "DeepNestedValidation"
  /\ \E n \in DefaultsOf("ValidatedContact") : input.o["primaryContact"] = n.value
  /\ \E n \in DefaultsOf("ValidatedAddress") : input.o["primaryAddress"] = n.value
  /\ \A d \in DeclsOf("DeepNestedValidation") :
       {f.name : f \in NestedEntityFields(d)} = {"primaryAddress", "primaryContact"}
====
